---- MODULE Spec2Model ----
(***************************************************************************)
(* Model of grid.py: construction of Grid (longitude normalisation, ice    *)
(* shelf draft, bathymetry, land / ice / region masks) and of SOSEGrid     *)
(* (longitude split, trim / extend index bookkeeping, read_field).         *)
(*                                                                         *)
(* Arrays are 0-based functions, as in numpy: a 1D array is a function on  *)
(* 0..n-1, a 2D array a[j][i], a 3D array a[k][j][i].                      *)
(* Longitudes and latitudes are integers counted in arc minutes, depths    *)
(* and thicknesses are integers counted in 1/HfacOne metres, and a partial *)
(* cell fraction hfac is the integer h standing for h/HfacOne, so that     *)
(* every product the code forms is exact.                                  *)
(***************************************************************************)
EXTENDS Integers, Sequences, FiniteSets, TLC

VARIABLES
    gfile,      \* the model grid file read by Grid(path)
    sfile,      \* the SOSE grid directory read by SOSEGrid(grid_dir)
    grid,       \* <<>> or <<the constructed Grid object>>
    sose,       \* <<>> or <<the constructed SOSEGrid object>>
    call,       \* the last call made by the program, with its arguments
    status,     \* "running", "exit" (sys.exit) or "crash" (uncaught exception)
    printed,    \* the error messages printed so far
    ret,        \* <<>> or <<the value returned by the last method call>>
    again       \* history: <<>>, or <<the value returned by the read_field call
                \* made just before the last one, with the same arguments>>

vars == <<gfile, sfile, grid, sose, call, status, printed, ret, again>>

----------------------------------------------------------------------------
(* Bounds of the model *)

\* hfac takes the values 0, 1/HfacOne, ..., 1 with HfacOne = 2*HfacHalf
HfacHalf == 1
\* number of vertical layers of the model grid files
MaxNz == 3
\* longest longitude axis of the enumerated model grid files
MaxNx == 3
\* number of time records of a time-dependent field file
MaxNt == 2

HfacOne == 2 * HfacHalf

----------------------------------------------------------------------------
(* Units and numpy-like helpers *)

Deg(d) == 60 * d
Metres(m) == m * HfacOne

Size(a) == Cardinality(DOMAIN a)
Arr(s) == [x \in 0..(Len(s) - 1) |-> s[x + 1]]
Last(a) == a[Size(a) - 1]

\* a[lo:hi] for 0 <= lo, with numpy's clamping of hi to the array's length
Slice(a, lo, hi) ==
    LET top == IF hi > Size(a) THEN Size(a) ELSE hi
    IN  [x \in 0..(top - lo - 1) |-> a[lo + x]]

\* np.concatenate((a, b))
Concat(a, b) ==
    [x \in 0..(Size(a) + Size(b) - 1) |-> IF x < Size(a) THEN a[x] ELSE b[x - Size(a)]]

\* np.all(np.diff(a) > 0)
StrictlyIncreasing(a) == \A x \in DOMAIN a : (x + 1) \in DOMAIN a => a[x] < a[x + 1]

RECURSIVE AMin(_, _)
AMin(a, n) == IF n = 0 THEN a[0] ELSE LET m == AMin(a, n - 1) IN IF a[n] < m THEN a[n] ELSE m
RECURSIVE AMax(_, _)
AMax(a, n) == IF n = 0 THEN a[0] ELSE LET m == AMax(a, n - 1) IN IF a[n] > m THEN a[n] ELSE m

\* np.amin / np.amax of a 1D array
amin(a) == AMin(a, Size(a) - 1)
amax(a) == AMax(a, Size(a) - 1)
\* np.amin / np.amax of a 2D array
amin2(a) == amin([j \in DOMAIN a |-> amin(a[j])])
amax2(a) == amax([j \in DOMAIN a |-> amax(a[j])])

\* np.meshgrid(x, y): the pair of 2D arrays [j][i]
MeshX(x, y) == [j \in DOMAIN y |-> x]
MeshY(x, y) == [j \in DOMAIN y |-> [i \in DOMAIN x |-> y[j]]]

RECURSIVE Pow(_, _)
Pow(b, e) == IF e = 0 THEN 1 ELSE b * Pow(b, e - 1)

----------------------------------------------------------------------------
(* utils.fix_lon_range: every value moved by a multiple of 360 degrees     *)
(* into the half-open interval (max_lon-360, max_lon].                     *)

FullCircle == Deg(360)
FixLon(x, max_lon) == max_lon - ((max_lon - x) % FullCircle)
fix_lon_range(lon, max_lon) == [i \in DOMAIN lon |-> FixLon(lon[i], max_lon)]
fix_lon_range_2d(lon, max_lon) ==
    [j \in DOMAIN lon |-> fix_lon_range(lon[j], max_lon)]

(* constants.py: [lon_min, lon_max, lat_min, lat_max] of the named regions *)
fris_bounds == <<Deg(-85), Deg(-29), Deg(-84), Deg(-74)>>
ewed_bounds == <<Deg(-30), Deg(40), Deg(-77), Deg(-65)>>
sws_shelf_bounds == <<Deg(-70), Deg(-30), Deg(-79), Deg(-72)>>

----------------------------------------------------------------------------
(* Grid.__init__ *)

\* the two longitude ranges of grid.py:118 and grid.py:121, in degrees
MaxLon360 == 360
MaxLon180 == 180

\* ChooseMaxLon without the test of the minimum
ChooseMaxLon_Mut(lon_1d) ==
    IF amax(lon_1d) > Deg(MaxLon180) THEN Deg(MaxLon360) ELSE Deg(MaxLon180)

\* grid.py:116-121: automatic choice of max_lon from the raw 1D axis
ChooseMaxLon(lon_1d) ==
    IF amin(lon_1d) < Deg(MaxLon180) /\ amax(lon_1d) > Deg(MaxLon180)
    THEN Deg(MaxLon360)
    ELSE Deg(MaxLon180)

\* grid.py:114: the longitude check runs only when max_lon is left to the code
AutoDetect(x_is_lon, max_lon) == max_lon = <<>> /\ x_is_lon

\* grid.py:125: the test that stops the construction
LonTestFails(lon_1d) == ~StrictlyIncreasing(lon_1d)

\* grid.py:139-146: one pass of the top-to-bottom loop; d[j][i] is
\* [nan |-> TRUE] while no draft is assigned yet.  DraftValue_Mut lowers the
\* ceiling by the wet fraction of the cell instead of the dry one.
DraftValue_Mut(z_edges, dz, k, h) == z_edges[k] - (dz[k] * h) \div HfacOne

DraftValue(z_edges, dz, k, h) == z_edges[k] - (dz[k] * (HfacOne - h)) \div HfacOne

\* DraftStep without the test that no draft is assigned yet
DraftStep_Mut(d, hfac, z_edges, dz, k) ==
    [j \in DOMAIN d |-> [i \in DOMAIN d[j] |->
        IF hfac[k][j][i] # 0
        THEN [nan |-> FALSE, val |-> DraftValue(z_edges, dz, k, hfac[k][j][i])]
        ELSE d[j][i]]]

DraftStep(d, hfac, z_edges, dz, k) ==
    [j \in DOMAIN d |-> [i \in DOMAIN d[j] |->
        IF hfac[k][j][i] # 0 /\ d[j][i].nan
        THEN [nan |-> FALSE, val |-> DraftValue(z_edges, dz, k, hfac[k][j][i])]
        ELSE d[j][i]]]

RECURSIVE DraftLoop(_, _, _, _, _, _)
DraftLoop(d, hfac, z_edges, dz, k, nz) ==
    IF k >= nz THEN d
    ELSE DraftLoop(DraftStep(d, hfac, z_edges, dz, k), hfac, z_edges, dz, k + 1, nz)

\* grid.py:139-149
CalcDraft(hfac, z_edges, dz, nx, ny, nz) ==
    LET nans == [j \in 0..(ny - 1) |-> [i \in 0..(nx - 1) |-> [nan |-> TRUE, val |-> 0]]]
        d == DraftLoop(nans, hfac, z_edges, dz, 0, nz)
    IN  [j \in 0..(ny - 1) |-> [i \in 0..(nx - 1) |->
            IF d[j][i].nan THEN 0 ELSE d[j][i].val]]

\* CalcBathy with the sign of wct lost
CalcBathy_Mut(draft, wct) ==
    [j \in DOMAIN draft |-> [i \in DOMAIN draft[j] |-> draft[j][i] + wct[j][i]]]

\* grid.py:152
CalcBathy(draft, wct) ==
    [j \in DOMAIN draft |-> [i \in DOMAIN draft[j] |-> draft[j][i] - wct[j][i]]]

\* np.sum(hfac, axis=0) at one horizontal point
RECURSIVE SumK(_, _, _, _)
SumK(hfac, j, i, k) == IF k < 0 THEN 0 ELSE hfac[k][j][i] + SumK(hfac, j, i, k - 1)
ColumnSum(hfac, j, i) == SumK(hfac, j, i, Size(hfac) - 1)

\* build_land_mask looking at the top layer only
build_land_mask_Mut(hfac) ==
    [j \in DOMAIN hfac[0] |-> [i \in DOMAIN hfac[0][j] |-> hfac[0][j][i] = 0]]

\* grid.py:174-176
build_land_mask(hfac) ==
    [j \in DOMAIN hfac[0] |-> [i \in DOMAIN hfac[0][j] |-> ColumnSum(hfac, j, i) = 0]]

\* build_ice_mask without the test that the column is wet somewhere
build_ice_mask_Mut(hfac) ==
    [j \in DOMAIN hfac[0] |-> [i \in DOMAIN hfac[0][j] |-> hfac[0][j][i] < HfacOne]]

\* grid.py:180-182
build_ice_mask(hfac) ==
    [j \in DOMAIN hfac[0] |-> [i \in DOMAIN hfac[0][j] |->
        ColumnSum(hfac, j, i) # 0 /\ hfac[0][j][i] < HfacOne]]

\* grid.py:193: the 45W split line and the latitude caps -74.7 and -77.85
FrisSplitLon == -45
FrisLatCapA == -4482
FrisLatCapB == -4671
FrisRegions ==
    << <<fris_bounds[1], Deg(FrisSplitLon), fris_bounds[3], FrisLatCapA>>,
       <<Deg(FrisSplitLon), fris_bounds[2], fris_bounds[3], FrisLatCapB>> >>

InBounds(lon, lat, b) == lon >= b[1] /\ lon <= b[2] /\ lat >= b[3] /\ lat <= b[4]

\* build_fris_mask with the first region ending just west of 45W
build_fris_mask_Mut(ice_mask, lon, lat) ==
    [j \in DOMAIN ice_mask |-> [i \in DOMAIN ice_mask[j] |->
        \E r \in DOMAIN FrisRegions :
            /\ ice_mask[j][i]
            /\ InBounds(lon[j][i], lat[j][i], FrisRegions[r])
            /\ (r = 1 => lon[j][i] < Deg(FrisSplitLon))]]

\* grid.py:188-198
build_fris_mask(ice_mask, lon, lat) ==
    [j \in DOMAIN ice_mask |-> [i \in DOMAIN ice_mask[j] |->
        \E r \in DOMAIN FrisRegions :
            ice_mask[j][i] /\ InBounds(lon[j][i], lat[j][i], FrisRegions[r])]]

\* grid.py:202-204
build_ewed_mask(ice_mask, lon, lat) ==
    [j \in DOMAIN ice_mask |-> [i \in DOMAIN ice_mask[j] |->
        ice_mask[j][i] /\ InBounds(lon[j][i], lat[j][i], ewed_bounds)]]

\* grid.py:214: the 1250 m isobath
ShelfDepth == -1250

\* build_sws_shelf_mask without the exclusion of land
build_sws_shelf_mask_Mut(land_mask, ice_mask, lon, lat, bathy) ==
    [j \in DOMAIN land_mask |-> [i \in DOMAIN land_mask[j] |->
        /\ ~ice_mask[j][i]
        /\ bathy[j][i] >= Metres(ShelfDepth)
        /\ InBounds(lon[j][i], lat[j][i], sws_shelf_bounds)]]

\* grid.py:212-214
build_sws_shelf_mask(land_mask, ice_mask, lon, lat, bathy) ==
    [j \in DOMAIN land_mask |-> [i \in DOMAIN land_mask[j] |->
        /\ ~land_mask[j][i]
        /\ ~ice_mask[j][i]
        /\ bathy[j][i] >= Metres(ShelfDepth)
        /\ InBounds(lon[j][i], lat[j][i], sws_shelf_bounds)]]

\* Lat1dOf reading row 0 of a 2D latitude array, as is right for longitude
Lat1dOf_Mut(f) == IF f.rank = 2 THEN f.YC[0] ELSE f.YC

\* grid.py:98-111: the 1D axes and the 2D meshes, from files of either rank
Lon1dOf(f) == IF f.rank = 2 THEN f.XC[0] ELSE f.XC
Lat1dOf(f) == IF f.rank = 2 THEN [j \in DOMAIN f.YC |-> f.YC[j][0]] ELSE f.YC
LonCorners1dOf(f) == IF f.rank = 2 THEN f.XG[0] ELSE f.XG
LatCorners1dOf(f) == IF f.rank = 2 THEN [j \in DOMAIN f.YG |-> f.YG[j][0]] ELSE f.YG
Lon2dOf(f) == IF f.rank = 2 THEN f.XC ELSE MeshX(Lon1dOf(f), Lat1dOf(f))
Lat2dOf(f) == IF f.rank = 2 THEN f.YC ELSE MeshY(Lon1dOf(f), Lat1dOf(f))
LonCorners2dOf(f) ==
    IF f.rank = 2 THEN f.XG ELSE MeshX(LonCorners1dOf(f), LatCorners1dOf(f))
LatCorners2dOf(f) ==
    IF f.rank = 2 THEN f.YG ELSE MeshY(LonCorners1dOf(f), LatCorners1dOf(f))

\* ResolveMaxLon choosing the range from the axis even when the caller names one
ResolveMaxLon_Mut(f, x_is_lon, max_lon) == ChooseMaxLon(Lon1dOf(f))

\* grid.py:113-121: the max_lon every longitude array is normalised with
ResolveMaxLon(f, x_is_lon, max_lon) ==
    IF AutoDetect(x_is_lon, max_lon) THEN ChooseMaxLon(Lon1dOf(f)) ELSE max_lon[1]

\* grid.py:122-127: whether the construction stops with the longitude error
LonError(f, x_is_lon, max_lon) ==
    /\ AutoDetect(x_is_lon, max_lon)
    /\ LonTestFails(fix_lon_range(Lon1dOf(f), ResolveMaxLon(f, x_is_lon, max_lon)))

\* grid.py:50-170: the object a successful construction leaves
GridObject(f, x_is_lon, max_lon) ==
    LET M == ResolveMaxLon(f, x_is_lon, max_lon)
        lon_test == IF AutoDetect(x_is_lon, max_lon)
                    THEN fix_lon_range(Lon1dOf(f), M) ELSE Lon1dOf(f)
        lon_1d == fix_lon_range(lon_test, M)
        lon_corners_1d == fix_lon_range(LonCorners1dOf(f), M)
        lon_2d == fix_lon_range_2d(Lon2dOf(f), M)
        lon_corners_2d == fix_lon_range_2d(LonCorners2dOf(f), M)
        lat_1d == Lat1dOf(f)
        lat_2d == Lat2dOf(f)
        lat_corners_2d == LatCorners2dOf(f)
        nx == Size(lon_1d)
        ny == Size(lat_1d)
        nz == Size(f.Z)
        draft == CalcDraft(f.hFacC, f.Zp1, f.drF, nx, ny, nz)
        bathy == CalcBathy(draft, f.Depth)
        land_mask == build_land_mask(f.hFacC)
        ice_mask == build_ice_mask(f.hFacC)
        ice_mask_u == build_ice_mask(f.hFacW)
        ice_mask_v == build_ice_mask(f.hFacS)
    IN  [ nx |-> nx, ny |-> ny, nz |-> nz,
          lon_1d |-> lon_1d, lat_1d |-> lat_1d,
          lon_corners_1d |-> lon_corners_1d, lat_corners_1d |-> LatCorners1dOf(f),
          lon_2d |-> lon_2d, lat_2d |-> lat_2d,
          lon_corners_2d |-> lon_corners_2d, lat_corners_2d |-> lat_corners_2d,
          z |-> f.Z, z_edges |-> f.Zp1, dz |-> f.drF,
          hfac |-> f.hFacC, hfac_w |-> f.hFacW, hfac_s |-> f.hFacS,
          wct |-> f.Depth, draft |-> draft, bathy |-> bathy,
          land_mask |-> land_mask,
          land_mask_u |-> build_land_mask(f.hFacW),
          land_mask_v |-> build_land_mask(f.hFacS),
          ice_mask |-> ice_mask, ice_mask_u |-> ice_mask_u, ice_mask_v |-> ice_mask_v,
          fris_mask |-> build_fris_mask(ice_mask, lon_2d, lat_2d),
          fris_mask_u |-> build_fris_mask(ice_mask_u, lon_corners_2d, lat_2d),
          fris_mask_v |-> build_fris_mask(ice_mask_v, lon_2d, lat_corners_2d),
          ewed_mask |-> build_ewed_mask(ice_mask, lon_2d, lat_2d),
          sws_shelf_mask |->
              build_sws_shelf_mask(land_mask, ice_mask, lon_2d, lat_2d, bathy) ]

\* grid.py:50-170: how Grid(path, x_is_lon, max_lon) ends on file f.  With
\* coordinate arrays of a rank other than 1 or 2 neither branch of
\* grid.py:99-111 runs, lon_1d is never assigned, and the first read of it
\* (grid.py:116 or grid.py:126) raises AttributeError.
GridCtor(f, x_is_lon, max_lon) ==
    IF f.rank \notin {1, 2} THEN [end |-> "crash", obj |-> <<>>]
    ELSE IF LonError(f, x_is_lon, max_lon) THEN [end |-> "exit", obj |-> <<>>]
    ELSE [end |-> "ok", obj |-> <<GridObject(f, x_is_lon, max_lon)>>]

\* the values a caller passes for max_lon: None, 180 or 360
MaxLonArgs == {<<>>, <<Deg(MaxLon180)>>, <<Deg(MaxLon360)>>}

LonErrorMsg == "Error (Grid): Longitude is not strictly increasing"

\* Grid(path, x_is_lon, max_lon) with path naming gfile.  A call with
\* x_is_lon=False and max_lon=None hands None to utils.fix_lon_range, which
\* the normaliser's contract does not cover: the program does not make it.
Grid__init__ ==
    /\ status = "running"
    /\ grid = <<>>
    /\ \E x_is_lon \in BOOLEAN, max_lon \in MaxLonArgs :
        /\ x_is_lon \/ max_lon # <<>>
        /\ call' = [op |-> "Grid", x_is_lon |-> x_is_lon, max_lon |-> max_lon]
        /\ LET r == GridCtor(gfile, x_is_lon, max_lon)
           IN  /\ grid' = r.obj
               /\ status' = IF r.end = "ok" THEN status ELSE r.end
               /\ printed' = IF r.end = "exit" THEN printed \cup {LonErrorMsg}
                             ELSE printed
    /\ UNCHANGED <<gfile, sfile, sose, ret, again>>

----------------------------------------------------------------------------
(* SOSEGrid.__init__ and SOSEGrid.read_field *)

\* utils.split_longitude: the last axis rotated so that it starts at index split
split_longitude(a, split) == Concat(Slice(a, split, Size(a)), Slice(a, 0, split))

\* constants.py: sose_res, the resolution of SOSE, 1/6 degree
sose_res == Deg(1) \div 6

\* np.nonzero(cond)[0][0] for the set S of indices where cond holds; the code
\* raises IndexError when S is empty
FirstOf(S) == CHOOSE m \in S : \A x \in S : m <= x

CeilDiv(a, b) == (a + b - 1) \div b

\* the values of split the code names at grid.py:362 and grid.py:366
Split180 == 180
Split0 == 0

\* grid.py:370-372: the only test of split that stops the construction
SplitError(trim_extend, split) == trim_extend /\ split # Split180 /\ split # Split0

\* grid.py:362-369: the mismatches that are printed, construction going on
SplitMismatch(model, split) ==
    IF split = Split180 /\ amax2(model.lon_2d) > Deg(MaxLon180)
    THEN {"Error (SOSEGrid): split=180 does not match model grid"}
    ELSE IF split = Split0 /\ amin2(model.lon_2d) < 0
    THEN {"Error (SOSEGrid): split=0 does not match model grid"}
    ELSE {}

\* grid.py:363, 367, 374
SoseMaxLon(trim_extend, split) ==
    IF trim_extend /\ split = Split180 THEN Deg(MaxLon180) ELSE Deg(MaxLon360)

\* grid.py:380-386; err is "crash" for the IndexError of grid.py:382
SoseSplitIndex(lon, split) ==
    IF split = Split180
    THEN LET S == {i \in DOMAIN lon : lon[i] < 0}
         IN  IF S = {} THEN [err |-> "crash", i |-> 0] ELSE [err |-> "", i |-> FirstOf(S)]
    ELSE [err |-> "", i |-> 0]

\* SoseLonCorners taking 360 off every positive corner, not the first one only
SoseLonCorners_Mut(xg, max_lon, i_split) ==
    LET c == split_longitude(fix_lon_range(xg, max_lon), i_split)
    IN  IF c[0] > 0
        THEN [i \in DOMAIN c |-> IF c[i] > 0 THEN c[i] - Deg(360) ELSE c[i]]
        ELSE c

\* grid.py:389-393
SoseLonCorners(xg, max_lon, i_split) ==
    LET c == split_longitude(fix_lon_range(xg, max_lon), i_split)
    IN  IF c[0] > 0 THEN [c EXCEPT ![0] = c[0] - Deg(360)] ELSE c

\* grid.py:396
SoseLonError(lon_1d, lon_corners_1d) ==
    ~StrictlyIncreasing(lon_1d) \/ ~StrictlyIncreasing(lon_corners_1d)

\* WestBound keeping the whole axis where the code refuses to extend westward
WestBound_Mut(lon_1d, xmin) ==
    IF xmin > lon_1d[0]
    THEN LET S == {i \in DOMAIN lon_1d : lon_1d[i] > xmin}
         IN  IF S = {} THEN [err |-> "crash", i |-> 0]
             ELSE [err |-> "", i |-> FirstOf(S) - 1]
    ELSE [err |-> "", i |-> 0]

\* grid.py:438-448
WestBound(lon_1d, xmin) ==
    IF xmin = lon_1d[0] THEN [err |-> "", i |-> 0]
    ELSE IF xmin > lon_1d[0]
    THEN LET S == {i \in DOMAIN lon_1d : lon_1d[i] > xmin}
         IN  IF S = {} THEN [err |-> "crash", i |-> 0]
             ELSE [err |-> "", i |-> FirstOf(S) - 1]
    ELSE [err |-> "Error (SOSEGrid): not allowed to extend westward", i |-> 0]

\* grid.py:450-459
EastBound(lon_corners_1d, xmax, sose_nx) ==
    IF xmax = Last(lon_corners_1d) THEN [err |-> "", i |-> sose_nx]
    ELSE IF xmax < Last(lon_corners_1d)
    THEN [err |-> "",
          i |-> FirstOf({i \in DOMAIN lon_corners_1d : lon_corners_1d[i] > xmax}) + 1]
    ELSE [err |-> "Error (SOSEGrid): not allowed to extend eastward", i |-> 0]

\* grid.py:463-475
SouthBound(lat_1d, ymin) ==
    IF ymin = lat_1d[0] THEN [err |-> "", before |-> 0, after |-> 0]
    ELSE IF ymin > lat_1d[0]
    THEN LET S == {j \in DOMAIN lat_1d : lat_1d[j] > ymin}
         IN  IF S = {} THEN [err |-> "crash", before |-> 0, after |-> 0]
             ELSE [err |-> "", before |-> FirstOf(S) - 1, after |-> 0]
    ELSE [err |-> "", before |-> 0, after |-> CeilDiv(lat_1d[0] - ymin, sose_res)]

\* grid.py:477-486
NorthBound(lat_corners_1d, ymax, sose_ny) ==
    IF ymax = Last(lat_corners_1d) THEN [err |-> "", j |-> sose_ny]
    ELSE IF ymax < Last(lat_corners_1d)
    THEN [err |-> "",
          j |-> FirstOf({j \in DOMAIN lat_corners_1d : lat_corners_1d[j] > ymax}) + 1]
    ELSE [err |-> "Error (SOSEGrid): not allowed to extend northward", j |-> 0]

\* DepthBounds with k1_after not shifted by the layer added at the surface
DepthBounds_Mut(z, z_shallow, z_deep, sose_nz) ==
    LET k0_after == IF z_shallow <= z[0] THEN 0 ELSE 1
        k1_before == IF z_deep > Last(z)
                     THEN FirstOf({k \in DOMAIN z : z[k] < z_deep}) + 1
                     ELSE sose_nz
        k1_after == k1_before
    IN  [ k0_before |-> 0, k0_after |-> k0_after,
          k1_before |-> k1_before, k1_after |-> k1_after,
          nz |-> IF z_deep < Last(z) THEN k1_after + 1 ELSE k1_after ]

\* grid.py:490-509
DepthBounds(z, z_shallow, z_deep, sose_nz) ==
    LET k0_after == IF z_shallow <= z[0] THEN 0 ELSE 1
        k1_before == IF z_deep > Last(z)
                     THEN FirstOf({k \in DOMAIN z : z[k] < z_deep}) + 1
                     ELSE sose_nz
        k1_after == k1_before + k0_after
    IN  [ k0_before |-> 0, k0_after |-> k0_after,
          k1_before |-> k1_before, k1_after |-> k1_after,
          nz |-> IF z_deep < Last(z) THEN k1_after + 1 ELSE k1_after ]

\* ExtendSouth with np.arange(n) not shifted by one: the last synthetic value
\* repeats first
ExtendSouth_Mut(n, first) == [x \in 0..(n - 1) |-> first - (n - x - 1) * sose_res]

\* grid.py:516 and grid.py:519: n values continuing the axis southward of first
ExtendSouth(n, first) == [x \in 0..(n - 1) |-> first - (n - x) * sose_res]

\* ExtendDepth extrapolating the source axis z where the code extrapolates the
\* axis of the model grid
ExtendDepth_Mut(z, d, model_z) ==
    LET z_above == [x \in 0..(d.k0_after - 1) |-> 0]
        z_middle == Slice(z, d.k0_before, d.k1_before)
        z_below == [x \in 0..(d.nz - d.k1_after - 1) |-> 2 * Last(z) - z[Size(z) - 2]]
    IN  Concat(Concat(z_above, z_middle), z_below)

\* grid.py:523-526
ExtendDepth(z, d, model_z) ==
    LET z_above == [x \in 0..(d.k0_after - 1) |-> 0]
        z_middle == Slice(z, d.k0_before, d.k1_before)
        z_below == [x \in 0..(d.nz - d.k1_after - 1) |->
                        2 * Last(model_z) - model_z[Size(model_z) - 2]]
    IN  Concat(Concat(z_above, z_middle), z_below)

\* BoundsCheck without the test of the western bound
BoundsCheck_Mut(lon_corners_1d, lat_corners_1d, z, b) ==
    IF Size(lon_corners_1d) = 0 THEN "crash"
    ELSE IF Last(lon_corners_1d) < b.xmax THEN "Error (SOSEGrid): eastern bound not cleared"
    ELSE IF Size(lat_corners_1d) = 0 THEN "crash"
    ELSE IF lat_corners_1d[0] > b.ymin THEN "Error (SOSEGrid): southern bound not cleared"
    ELSE IF Last(lat_corners_1d) < b.ymax THEN "Error (SOSEGrid): northern bound not cleared"
    ELSE IF z[0] < b.z_shallow THEN "Error (SOSEGrid): shallow bound not cleared"
    ELSE IF Last(z) > b.z_deep THEN "Error (SOSEGrid): deep bound not cleared"
    ELSE ""

\* grid.py:528-546: the first bound found not cleared, "" when all are, and
\* "crash" for the IndexError of indexing an empty axis
BoundsCheck(lon_corners_1d, lat_corners_1d, z, b) ==
    IF Size(lon_corners_1d) = 0 THEN "crash"
    ELSE IF lon_corners_1d[0] > b.xmin THEN "Error (SOSEGrid): western bound not cleared"
    ELSE IF Last(lon_corners_1d) < b.xmax THEN "Error (SOSEGrid): eastern bound not cleared"
    ELSE IF Size(lat_corners_1d) = 0 THEN "crash"
    ELSE IF lat_corners_1d[0] > b.ymin THEN "Error (SOSEGrid): southern bound not cleared"
    ELSE IF Last(lat_corners_1d) < b.ymax THEN "Error (SOSEGrid): northern bound not cleared"
    ELSE IF z[0] < b.z_shallow THEN "Error (SOSEGrid): shallow bound not cleared"
    ELSE IF Last(z) > b.z_deep THEN "Error (SOSEGrid): deep bound not cleared"
    ELSE ""

\* grid.py:430-436
ModelBounds(model) ==
    [ xmin |-> amin2(model.lon_corners_2d), xmax |-> amax2(model.lon_2d),
      ymin |-> amin2(model.lat_corners_2d), ymax |-> amax2(model.lat_2d),
      z_shallow |-> model.z[0], z_deep |-> Last(model.z) ]

\* AssignWindow2 reading the source window from the first column, not i0_before
AssignWindow2_Mut(o, src, fill, on) ==
    LET data_orig == [j \in DOMAIN src |-> split_longitude(src[j], o.i_split)]
        rows == Slice(data_orig, o.j0_before, o.j1_before)
        win == [j \in DOMAIN rows |-> Slice(rows[j], 0, o.i1_before - o.i0_before)]
    IN  [j \in 0..(o.ny - 1) |-> [i \in 0..(o.nx - 1) |->
            IF /\ on
               /\ j >= o.j0_after /\ j < o.j1_after
               /\ i >= o.i0_after /\ i < o.i1_after
            THEN win[j - o.j0_after][i - o.i0_after]
            ELSE fill]]

\* grid.py:591-595: data[j0_after:j1_after, i0_after:i1_after] = the window of
\* the longitude-split source; on is FALSE for a layer outside k0_after:k1_after
AssignWindow2(o, src, fill, on) ==
    LET data_orig == [j \in DOMAIN src |-> split_longitude(src[j], o.i_split)]
        rows == Slice(data_orig, o.j0_before, o.j1_before)
        win == [j \in DOMAIN rows |-> Slice(rows[j], o.i0_before, o.i1_before)]
    IN  [j \in 0..(o.ny - 1) |-> [i \in 0..(o.nx - 1) |->
            IF /\ on
               /\ j >= o.j0_after /\ j < o.j1_after
               /\ i >= o.i0_after /\ i < o.i1_after
            THEN win[j - o.j0_after][i - o.i0_after]
            ELSE fill]]

AssignWindow3(o, src, fill) ==
    LET layers == Slice(src, o.k0_before, o.k1_before)
    IN  [k \in 0..(o.nz - 1) |->
            IF k >= o.k0_after /\ k < o.k1_after
            THEN AssignWindow2(o, layers[k - o.k0_after], fill, TRUE)
            ELSE AssignWindow2(o, src[0], fill, FALSE)]

\* grid.py:574-601: o holds the attributes of self that read_field uses
ReadField(o, file, dimensions, fill_value) ==
    IF ~o.trim_extend THEN file
    ELSE CASE dimensions = "xy" -> AssignWindow2(o, file, fill_value, TRUE)
           [] dimensions = "xyz" -> AssignWindow3(o, file, fill_value)
           [] dimensions = "xyt" ->
                [t \in DOMAIN file |-> AssignWindow2(o, file[t], fill_value, TRUE)]
           [] dimensions = "xyzt" ->
                [t \in DOMAIN file |-> AssignWindow3(o, file[t], fill_value)]

\* grid.py:376-409: the native axes; err is "crash", a message or ""
SoseNative(f, max_lon, split) ==
    LET lon == fix_lon_range(f.XC[0], max_lon)
        sp == SoseSplitIndex(lon, split)
        lon_1d == split_longitude(lon, sp.i)
        lon_corners_1d == SoseLonCorners(f.XG[0], max_lon, sp.i)
    IN  IF sp.err # "" THEN [err |-> sp.err]
        ELSE IF SoseLonError(lon_1d, lon_corners_1d)
        THEN [err |-> "Error (SOSEGrid): longitude is not strictly increasing"]
        ELSE [ err |-> "", i_split |-> sp.i,
               lon_1d |-> lon_1d, lon_corners_1d |-> lon_corners_1d,
               lat_1d |-> [j \in DOMAIN f.YC |-> f.YC[j][0]],
               lat_corners_1d |-> [j \in DOMAIN f.YG |-> f.YG[j][0]],
               z |-> f.RC ]

\* grid.py:411-551: the attributes set when trimming and extending to model
SoseTrimmed(f, n, model) ==
    LET b == ModelBounds(model)
        w == WestBound(n.lon_1d, b.xmin)
        e == EastBound(n.lon_corners_1d, b.xmax, Size(n.lon_1d))
        s == SouthBound(n.lat_1d, b.ymin)
        nb == NorthBound(n.lat_corners_1d, b.ymax, Size(n.lat_1d))
        d == DepthBounds(n.z, b.z_shallow, b.z_deep, Size(n.z))
        i1_after == e.i - w.i
        j1_after == nb.j - s.before + s.after
        lon_1d == Slice(n.lon_1d, w.i, e.i)
        lon_corners_1d == Slice(n.lon_corners_1d, w.i, e.i)
        lat_1d == Concat(ExtendSouth(s.after, n.lat_1d[s.before]),
                         Slice(n.lat_1d, s.before, nb.j))
        lat_corners_1d == Concat(ExtendSouth(s.after, n.lat_corners_1d[s.before]),
                                 Slice(n.lat_corners_1d, s.before, nb.j))
        z == ExtendDepth(n.z, d, model.z)
        check == BoundsCheck(lon_corners_1d, lat_corners_1d, z, b)
        o == [ trim_extend |-> TRUE, i_split |-> n.i_split,
               lon_1d |-> lon_1d, lon_corners_1d |-> lon_corners_1d,
               lat_1d |-> lat_1d, lat_corners_1d |-> lat_corners_1d, z |-> z,
               i0_before |-> w.i, i0_after |-> 0,
               i1_before |-> e.i, i1_after |-> i1_after, nx |-> i1_after,
               j0_before |-> s.before, j0_after |-> s.after,
               j1_before |-> nb.j, j1_after |-> j1_after, ny |-> j1_after,
               k0_before |-> d.k0_before, k0_after |-> d.k0_after,
               k1_before |-> d.k1_before, k1_after |-> d.k1_after, nz |-> d.nz ]
    IN  IF w.err # "" THEN [err |-> w.err]
        ELSE IF e.err # "" THEN [err |-> e.err]
        ELSE IF s.err # "" THEN [err |-> s.err]
        ELSE IF nb.err # "" THEN [err |-> nb.err]
        ELSE IF Size(model.z) < 2 THEN [err |-> "crash"]
        ELSE IF check # "" THEN [err |-> check]
        ELSE [ err |-> "",
               obj |-> o @@ [ hfac |-> ReadField(o, f.hFacC, "xyz", 0),
                              hfac_w |-> ReadField(o, f.hFacW, "xyz", 0),
                              hfac_s |-> ReadField(o, f.hFacS, "xyz", 0) ] ]

\* grid.py:553-561: the attributes set when model_grid is None
SoseUntrimmed(f, n) ==
    [ trim_extend |-> FALSE, i_split |-> n.i_split,
      lon_1d |-> n.lon_1d, lon_corners_1d |-> n.lon_corners_1d,
      lat_1d |-> n.lat_1d, lat_corners_1d |-> n.lat_corners_1d, z |-> n.z,
      hfac |-> f.hFacC, hfac_w |-> f.hFacW, hfac_s |-> f.hFacS,
      nx |-> Size(n.lon_1d), ny |-> Size(n.lat_1d), nz |-> Size(n.z) ]

\* grid.py:563-566
WithLandMasks(o) ==
    o @@ [ land_mask |-> build_land_mask(o.hfac),
           land_mask_u |-> build_land_mask(o.hfac_w),
           land_mask_v |-> build_land_mask(o.hfac_s) ]

\* grid.py:352-566: model is <<>> for model_grid=None, else <<the Grid>>;
\* the result is the printed messages, the way the call ends and the object
SoseBuild(f, model, split) ==
    LET trim_extend == model # <<>>
        prints == IF trim_extend THEN SplitMismatch(model[1], split) ELSE {}
        n == SoseNative(f, SoseMaxLon(trim_extend, split), split)
        t == SoseTrimmed(f, n, model[1])
        Fail(err, msgs) ==
            IF err = "crash" THEN [end |-> "crash", printed |-> msgs]
            ELSE [end |-> "exit", printed |-> msgs \cup {err}]
    IN  IF SplitError(trim_extend, split)
        THEN Fail("Error (SOSEGrid): split must be 180 or 0", {})
        ELSE IF n.err # "" THEN Fail(n.err, prints)
        ELSE IF ~trim_extend
        THEN [end |-> "ok", printed |-> prints, obj |-> WithLandMasks(SoseUntrimmed(f, n))]
        ELSE IF t.err # "" THEN Fail(t.err, prints)
        ELSE [end |-> "ok", printed |-> prints, obj |-> WithLandMasks(t.obj)]

\* the values a caller passes for split: the two the code names and another
SplitArgs == {Split0, Split180, 90}

\* SOSEGrid(grid_dir, model_grid, split) with grid_dir naming sfile
SOSEGrid__init__ ==
    /\ status = "running"
    /\ sose = <<>>
    /\ \E model \in {<<>>, grid}, split \in SplitArgs :
        LET r == SoseBuild(sfile, model, split)
        IN  /\ call' = [op |-> "SOSEGrid", model_grid |-> model, split |-> split]
            /\ printed' = printed \cup r.printed
            /\ IF r.end = "ok"
               THEN sose' = <<r.obj>> /\ status' = status
               ELSE sose' = sose /\ status' = r.end
    /\ UNCHANGED <<gfile, sfile, grid, ret, again>>

\* the file of a field of the native SOSE shape, every element distinct
FieldPlane(t, k, ny, nx) ==
    [j \in 0..(ny - 1) |-> [i \in 0..(nx - 1) |-> 1000 * t + 100 * k + 10 * j + i + 1]]

FieldFile(dimensions, f) ==
    LET nx == Size(f.XC[0])
        ny == Size(f.YC)
        nz == Size(f.RC)
        Vol(t) == [k \in 0..(nz - 1) |-> FieldPlane(t, k, ny, nx)]
    IN  CASE dimensions = "xy" -> FieldPlane(0, 0, ny, nx)
          [] dimensions = "xyz" -> Vol(0)
          [] dimensions = "xyt" -> [t \in 0..(MaxNt - 1) |-> FieldPlane(t, 0, ny, nx)]
          [] dimensions = "xyzt" -> [t \in 0..(MaxNt - 1) |-> Vol(t)]

Dimensions == {"xy", "xyz", "xyt", "xyzt"}

\* the default fill_value of grid.py:574
DefaultFill == -9999

\* read_field_self keeping the rotated source for the next call: i_split reset
read_field_self_Mut(o) == [o EXCEPT !.i_split = 0]

\* grid.py:574-601: the attributes of self when read_field returns; the code
\* assigns to none of them
read_field_self(o) == o

\* sose.read_field(file_path, dimensions, fill_value)
read_field ==
    /\ status = "running"
    /\ sose # <<>>
    /\ \E dimensions \in Dimensions, fill_value \in {DefaultFill, 0} :
        LET file == FieldFile(dimensions, sfile)
            repeated == /\ call.op = "read_field"
                        /\ call.dimensions = dimensions
                        /\ call.fill_value = fill_value
        IN  /\ call' = [op |-> "read_field", dimensions |-> dimensions,
                        fill_value |-> fill_value]
            /\ ret' = <<ReadField(sose[1], file, dimensions, fill_value)>>
            /\ again' = IF repeated THEN ret ELSE <<>>
    /\ sose' = <<read_field_self(sose[1])>>
    /\ UNCHANGED <<gfile, sfile, grid, status, printed>>

----------------------------------------------------------------------------
(* The methods of a constructed Grid or SOSEGrid *)

\* what a method call comes to: the value returned, or the message printed
\* before sys.exit
Ok(v) == [err |-> "", val |-> v]
Err(m) == [err |-> m, val |-> <<>>]

\* the grid types and the values of dim a caller passes: the five supported
\* types and an unknown one; 1, 2 and an unsupported 3
Gtypes == {"t", "u", "v", "psi", "w", "x"}
HfacGtypes == {"t", "u", "v"}
DimArgs == {1, 2, 3}

\* GetLonLat answering 'psi' with the centre latitudes
GetLonLat_Mut(o, gtype, dim) ==
    IF dim \notin {1, 2} THEN Err("Error (get_lon_lat): dim must be 1 or 2")
    ELSE LET lon == IF dim = 1 THEN o.lon_1d ELSE o.lon_2d
             lon_corners == IF dim = 1 THEN o.lon_corners_1d ELSE o.lon_corners_2d
             lat == IF dim = 1 THEN o.lat_1d ELSE o.lat_2d
             lat_corners == IF dim = 1 THEN o.lat_corners_1d ELSE o.lat_corners_2d
         IN  CASE gtype \in {"t", "w"} -> Ok(<<lon, lat>>)
               [] gtype \in {"u", "psi"} -> Ok(<<lon_corners, lat>>)
               [] gtype = "v" -> Ok(<<lon, lat_corners>>)
               [] OTHER -> Err("Error (get_lon_lat): invalid gtype " \o gtype)

\* grid.py:219-245: Grid.get_lon_lat
GetLonLat(o, gtype, dim) ==
    IF dim \notin {1, 2} THEN Err("Error (get_lon_lat): dim must be 1 or 2")
    ELSE LET lon == IF dim = 1 THEN o.lon_1d ELSE o.lon_2d
             lon_corners == IF dim = 1 THEN o.lon_corners_1d ELSE o.lon_corners_2d
             lat == IF dim = 1 THEN o.lat_1d ELSE o.lat_2d
             lat_corners == IF dim = 1 THEN o.lat_corners_1d ELSE o.lat_corners_2d
         IN  CASE gtype \in {"t", "w"} -> Ok(<<lon, lat>>)
               [] gtype = "u" -> Ok(<<lon_corners, lat>>)
               [] gtype = "v" -> Ok(<<lon, lat_corners>>)
               [] gtype = "psi" -> Ok(<<lon_corners, lat_corners>>)
               [] OTHER -> Err("Error (get_lon_lat): invalid gtype " \o gtype)

\* grid.py:605-622: SOSEGrid.get_lon_lat
SoseGetLonLat(o, gtype, dim) ==
    IF dim # 1 THEN Err("Error (get_lon_lat): must have dim=1 for SOSE grid")
    ELSE CASE gtype \in {"t", "w"} -> Ok(<<o.lon_1d, o.lat_1d>>)
           [] gtype = "u" -> Ok(<<o.lon_corners_1d, o.lat_1d>>)
           [] gtype = "v" -> Ok(<<o.lon_1d, o.lat_corners_1d>>)
           [] gtype = "psi" -> Ok(<<o.lon_corners_1d, o.lat_corners_1d>>)
           [] OTHER -> Err("Error (get_lon_lat): invalid gtype " \o gtype)

\* GetHfac answering 'w' with the tracer array
GetHfac_Mut(o, gtype) ==
    CASE gtype \in {"t", "w"} -> Ok(o.hfac)
      [] gtype = "u" -> Ok(o.hfac_w)
      [] gtype = "v" -> Ok(o.hfac_s)
      [] OTHER -> Err("Error (get_hfac): no hfac exists for the " \o gtype \o " grid")

\* grid.py:251-261
GetHfac(o, gtype) ==
    CASE gtype = "t" -> Ok(o.hfac)
      [] gtype = "u" -> Ok(o.hfac_w)
      [] gtype = "v" -> Ok(o.hfac_s)
      [] OTHER -> Err("Error (get_hfac): no hfac exists for the " \o gtype \o " grid")

\* grid.py:265-275
GetLandMask(o, gtype) ==
    CASE gtype = "t" -> Ok(o.land_mask)
      [] gtype = "u" -> Ok(o.land_mask_u)
      [] gtype = "v" -> Ok(o.land_mask_v)
      [] OTHER -> Err("Error (get_land_mask): no mask exists for the " \o gtype \o " grid")

\* grid.py:279-289
GetIceMask(o, gtype) ==
    CASE gtype = "t" -> Ok(o.ice_mask)
      [] gtype = "u" -> Ok(o.ice_mask_u)
      [] gtype = "v" -> Ok(o.ice_mask_v)
      [] OTHER -> Err("Error (get_ice_mask): no mask exists for the " \o gtype \o " grid")

\* grid.py:293-303
GetFrisMask(o, gtype) ==
    CASE gtype = "t" -> Ok(o.fris_mask)
      [] gtype = "u" -> Ok(o.fris_mask_u)
      [] gtype = "v" -> Ok(o.fris_mask_v)
      [] OTHER -> Err("Error (get_fris_mask): no mask exists for the " \o gtype \o " grid")

NoIceMsg == "Error (SOSEGrid): no ice shelves to mask"

\* SoseNoIce with build_ice_mask not overridden: the helper inherited from
\* Grid answers
SoseNoIce_Mut(o, c) ==
    IF c.op = "build_ice_mask" THEN Ok(build_ice_mask(o.hfac)) ELSE Err(NoIceMsg)

\* grid.py:626-637: build_ice_mask, build_fris_mask, get_ice_mask and
\* get_fris_mask of SOSEGrid, whatever their arguments
SoseNoIce(o, c) == Err(NoIceMsg)

\* the arrays of sub-grid gtype that Grid.__init__ hands to the build_*_mask
\* helpers (grid.py:154-170)
HfacOf(o, gtype) ==
    CASE gtype = "t" -> o.hfac [] gtype = "u" -> o.hfac_w [] gtype = "v" -> o.hfac_s
IceOf(o, gtype) ==
    CASE gtype = "t" -> o.ice_mask [] gtype = "u" -> o.ice_mask_u
      [] gtype = "v" -> o.ice_mask_v
LonOf(o, gtype) == IF gtype = "u" THEN o.lon_corners_2d ELSE o.lon_2d
LatOf(o, gtype) == IF gtype = "v" THEN o.lat_corners_2d ELSE o.lat_2d

\* a call c of a method on object o of class on ("Grid" or "SOSEGrid")
MethodCall(on, o, c) ==
    CASE c.op = "get_lon_lat" ->
            IF on = "SOSEGrid" THEN SoseGetLonLat(o, c.gtype, c.dim)
            ELSE GetLonLat(o, c.gtype, c.dim)
      [] c.op = "get_hfac" -> GetHfac(o, c.gtype)
      [] c.op = "get_land_mask" -> GetLandMask(o, c.gtype)
      [] c.op = "get_ice_mask" ->
            IF on = "SOSEGrid" THEN SoseNoIce(o, c) ELSE GetIceMask(o, c.gtype)
      [] c.op = "get_fris_mask" ->
            IF on = "SOSEGrid" THEN SoseNoIce(o, c) ELSE GetFrisMask(o, c.gtype)
      [] c.op = "build_land_mask" -> Ok(build_land_mask(HfacOf(o, c.gtype)))
      [] c.op = "build_ice_mask" ->
            IF on = "SOSEGrid" THEN SoseNoIce(o, c)
            ELSE Ok(build_ice_mask(HfacOf(o, c.gtype)))
      [] c.op = "build_fris_mask" ->
            IF on = "SOSEGrid" THEN SoseNoIce(o, c)
            ELSE Ok(build_fris_mask(IceOf(o, c.gtype), LonOf(o, c.gtype),
                                    LatOf(o, c.gtype)))
      [] c.op = "build_ewed_mask" -> Ok(build_ewed_mask(o.ice_mask, o.lon_2d, o.lat_2d))
      [] c.op = "build_sws_shelf_mask" ->
            Ok(build_sws_shelf_mask(o.land_mask, o.ice_mask, o.lon_2d, o.lat_2d,
                                    o.bathy))

\* method_self with get_hfac keeping the array it selected as self.hfac
method_self_Mut(o, c) ==
    IF c.op = "get_hfac" /\ c.gtype = "u" THEN [o EXCEPT !.hfac = o.hfac_w] ELSE o

\* grid.py:173-303 and grid.py:605-637: the attributes of self when the
\* method returns or exits; none of the methods assigns to self
method_self(o, c) == o

Classes == {"Grid", "SOSEGrid"}

\* the call c made on the constructed object of class c.on
Method(c) ==
    /\ (IF c.on = "Grid" THEN grid ELSE sose) # <<>>
    /\ LET o == IF c.on = "Grid" THEN grid[1] ELSE sose[1]
           r == MethodCall(c.on, o, c)
       IN  /\ call' = c
           /\ IF r.err = ""
              THEN ret' = <<r.val>> /\ UNCHANGED <<printed, status>>
              ELSE ret' = <<>> /\ printed' = printed \cup {r.err} /\ status' = "exit"
           /\ IF c.on = "Grid"
              THEN grid' = <<method_self(o, c)>> /\ sose' = sose
              ELSE sose' = <<method_self(o, c)>> /\ grid' = grid
    /\ again' = <<>>
    /\ UNCHANGED <<gfile, sfile>>

get_lon_lat ==
    \E on \in Classes, gtype \in Gtypes, dim \in DimArgs :
        status = "running" /\ Method([op |-> "get_lon_lat", on |-> on, gtype |-> gtype, dim |-> dim])

get_hfac ==
    \E on \in Classes, gtype \in Gtypes :
        status = "running" /\ Method([op |-> "get_hfac", on |-> on, gtype |-> gtype])

get_land_mask ==
    \E on \in Classes, gtype \in Gtypes :
        status = "running" /\ Method([op |-> "get_land_mask", on |-> on, gtype |-> gtype])

get_ice_mask ==
    \E on \in Classes, gtype \in Gtypes :
        status = "running" /\ Method([op |-> "get_ice_mask", on |-> on, gtype |-> gtype])

get_fris_mask ==
    \E on \in Classes, gtype \in Gtypes :
        status = "running" /\ Method([op |-> "get_fris_mask", on |-> on, gtype |-> gtype])

\* the build_*_mask helpers called on the arrays of the object itself; a
\* SOSEGrid has no ice mask to hand to build_ewed_mask or build_sws_shelf_mask
call_build_land_mask ==
    \E on \in Classes, gtype \in HfacGtypes :
        status = "running" /\ Method([op |-> "build_land_mask", on |-> on, gtype |-> gtype])

call_build_ice_mask ==
    \E on \in Classes, gtype \in HfacGtypes :
        status = "running" /\ Method([op |-> "build_ice_mask", on |-> on, gtype |-> gtype])

call_build_fris_mask ==
    \E on \in Classes, gtype \in HfacGtypes :
        status = "running" /\ Method([op |-> "build_fris_mask", on |-> on, gtype |-> gtype])

call_build_ewed_mask ==
    status = "running" /\ Method([op |-> "build_ewed_mask", on |-> "Grid", gtype |-> "t"])

call_build_sws_shelf_mask ==
    status = "running" /\ Method([op |-> "build_sws_shelf_mask", on |-> "Grid", gtype |-> "t"])

----------------------------------------------------------------------------
(* The model grid files the program is run on *)

\* the profile of one water column: layer k of column number q
HfacBase == HfacOne + 1
NumColumns == Pow(HfacBase, MaxNz)
ColumnHfac(q, k) == (q \div Pow(HfacBase, k)) % HfacBase

\* a 3D hfac array of nz layers whose column at (j,i) is column number
\* p + s*(i + nx*j)
HfacArray(p, s, nx, ny, nz) ==
    [k \in 0..(nz - 1) |-> [j \in 0..(ny - 1) |-> [i \in 0..(nx - 1) |->
        ColumnHfac((p + s * (i + nx * j)) % Pow(HfacBase, nz), k)]]]

\* depth axes: layers of 10 m ("uniform"), or of 10, 20, 30, ... m ("stretched")
LayerTop(kind, k) ==
    IF kind = "uniform" THEN Metres(-10 * k) ELSE Metres(-5 * k * (k + 1))
DepthEdges(kind) == [k \in 0..MaxNz |-> LayerTop(kind, k)]
DepthThick(kind) == [k \in 0..(MaxNz - 1) |-> LayerTop(kind, k) - LayerTop(kind, k + 1)]
DepthCentres(kind) ==
    [k \in 0..(MaxNz - 1) |-> (LayerTop(kind, k) + LayerTop(kind, k + 1)) \div 2]

\* a coordinate array of the given rank: the axis, the mesh, or the mesh
\* under one more leading dimension of length 1
Ranked(rank, axis, mesh) ==
    CASE rank = 1 -> axis [] rank = 2 -> mesh [] rank = 3 -> Arr(<<mesh>>)

\* a file of the given rank with centre axes xc, yc (corners half a cell of
\* 5 x 1 degrees to the south-west), hfac columns from p with stride s, and
\* water column thickness wct everywhere
GridFile(rank, xc, yc, kind, p, s, wct) ==
    LET xg == [i \in DOMAIN xc |-> xc[i] - Deg(5) \div 2]
        yg == [j \in DOMAIN yc |-> yc[j] - Deg(1) \div 2]
        nx == Size(xc)
        ny == Size(yc)
    IN  [ rank |-> rank,
          XC |-> Ranked(rank, xc, MeshX(xc, yc)),
          YC |-> Ranked(rank, yc, MeshY(xc, yc)),
          XG |-> Ranked(rank, xg, MeshX(xg, yg)),
          YG |-> Ranked(rank, yg, MeshY(xg, yg)),
          Z |-> DepthCentres(kind), Zp1 |-> DepthEdges(kind), drF |-> DepthThick(kind),
          hFacC |-> HfacArray(p, s, nx, ny, MaxNz),
          hFacW |-> HfacArray(p + s, s, nx, ny, MaxNz),
          hFacS |-> HfacArray(p + 2 * s, s, nx, ny, MaxNz),
          Depth |-> [j \in 0..(ny - 1) |-> [i \in 0..(nx - 1) |-> wct]] ]

\* longitude axes of every length 2..MaxNx over a few raw longitudes
LonVals == {Deg(-175), Deg(-45), Deg(5), Deg(170), Deg(185), Deg(355)}
LonAxes == UNION {[0..(n - 1) -> LonVals] : n \in 2..MaxNx}

\* the axis of the specification's example: from 170E across the date line
ExampleLonAxis == Arr(<<Deg(170), Deg(175), Deg(-175), Deg(-170)>>)

\* files that vary the longitude axis
LonFiles ==
    {GridFile(rank, xc, Arr(<<Deg(-78), Deg(-76)>>), "uniform", 1, 1, Metres(25)) :
        rank \in {1, 2}, xc \in LonAxes \cup {ExampleLonAxis}}

\* files that vary the water columns, over points in and around the regions:
\* <<longitude axis, latitude axis>> and <<depth axis, water column thickness>>
MaskAxes ==
    { <<Arr(<<Deg(-50), Deg(-45), Deg(-40)>>), Arr(<<Deg(-80), Deg(-78)>>)>>,
      <<Arr(<<Deg(-45), Deg(5)>>), Arr(<<Deg(-76), Deg(-73)>>)>> }
MaskDepths == { <<"uniform", Metres(25)>>, <<"stretched", Metres(1500)>> }
MaskFiles ==
    {GridFile(1, a[1], a[2], d[1], p, s, d[2]) :
        a \in MaskAxes, d \in MaskDepths,
        p \in 0..(NumColumns - 1), s \in {0, 1, HfacBase}}

GridFiles == LonFiles \cup MaskFiles

\* files over every axis of three raw longitudes
SplitFiles ==
    {GridFile(1, xc, Arr(<<Deg(-78), Deg(-76)>>), "uniform", 1, 1, Metres(25)) :
        xc \in [0..2 -> LonVals]}

\* files of rank 1, 2 and 3 over every pair of raw longitudes
RankFiles ==
    {GridFile(rank, xc, Arr(<<Deg(-78), Deg(-76)>>), "uniform", 1, 1, Metres(25)) :
        rank \in {1, 2, 3}, xc \in [0..1 -> LonVals]}

\* model grid files that are the target of a SOSEGrid: longitudes west of
\* Greenwich, across 180E, east of Greenwich, and from the date line to east
\* of Greenwich; southern bounds level with, north of and one and a half
\* cells south of the first SOSE latitude
TargetLonAxes ==
    {Arr(<<Deg(-50), Deg(-45), Deg(-40)>>), Arr(<<Deg(170), Deg(185)>>),
     Arr(<<Deg(5), Deg(50)>>), Arr(<<Deg(-179), Deg(5)>>)}
TargetLatAxes ==
    {Arr(<<Deg(-77) - 10>>), Arr(<<Deg(-77)>>), Arr(<<Deg(-77) - 25>>)}
TargetFiles ==
    {GridFile(1, xc, yc, kind, 1, 1, Metres(25)) :
        xc \in TargetLonAxes, yc \in TargetLatAxes, kind \in {"uniform", "stretched"}}

\* a SOSE grid directory: nx cells of width res from longitude x0, ny cells of
\* width sose_res from 77 2/3 S, nz layers of dzm metres; the corners lie half
\* a cell to the west and south of the centres (stagx = stagy = -1), or, for
\* files written with another staggering, to the east (stagx = 1) or to the
\* north (stagy = 1)
SoseFile(nx, res, x0, ny, nz, dzm, stagx, stagy) ==
    LET y0 == Deg(-78) + 2 * sose_res
        xc == [i \in 0..(nx - 1) |-> x0 + res \div 2 + i * res]
        xg == [i \in 0..(nx - 1) |-> xc[i] + stagx * (res \div 2)]
        yc == [j \in 0..(ny - 1) |-> y0 + j * sose_res]
        yg == [j \in 0..(ny - 1) |-> yc[j] + stagy * (sose_res \div 2)]
    IN  [ XC |-> MeshX(xc, yc), YC |-> MeshY(xc, yc),
          XG |-> MeshX(xg, yg), YG |-> MeshY(xg, yg),
          RC |-> [k \in 0..(nz - 1) |-> Metres(-(2 * k + 1) * dzm) \div 2],
          hFacC |-> HfacArray(1, 1, nx, ny, nz),
          hFacW |-> HfacArray(2, 1, nx, ny, nz),
          hFacS |-> HfacArray(3, 1, nx, ny, nz) ]

\* longitude axes <<nx, res, x0>>: the globe in 6 cells; the globe in 4 cells,
\* half the globe, a file kept in (-180, 180), a regional file east of Greenwich
SoseGlobe == <<6, Deg(60), 0>>
SoseLonKinds ==
    { <<4, Deg(90), 0>>, <<3, Deg(60), 0>>, <<6, Deg(60), Deg(-180)>>, <<3, Deg(4), 0>> }
\* depth axes <<nz, dzm>>: 3 layers of 10 m, 2 layers of 20 m, 6 layers of 10 m
SoseDepthKinds == { <<3, 10>>, <<2, 20>>, <<6, 10>> }
SoseFiles ==
    {SoseFile(SoseGlobe[1], SoseGlobe[2], SoseGlobe[3], ny, z[1], z[2], -1, -1) :
        ny \in {3, 6}, z \in SoseDepthKinds}
    \cup {SoseFile(x[1], x[2], x[3], 6, 6, 10, -1, -1) : x \in SoseLonKinds}
    \cup {SoseFile(SoseGlobe[1], SoseGlobe[2], SoseGlobe[3], 6, 6, 10, st[1], st[2]) :
            st \in {<<1, -1>>, <<-1, 1>>}}

----------------------------------------------------------------------------
(* choose_grid and grid_check_split *)

\* the paths a caller names: the model grid, read as gfile, and a model output
\* file that holds grid variables of its own
Paths == {"grid_path", "file_path"}
OutputFile ==
    GridFile(1, Arr(<<Deg(5), Deg(50)>>), Arr(<<Deg(-77)>>), "uniform", 1, 1, Metres(25))
FileAt(path) == IF path = "grid_path" THEN gfile ELSE OutputFile

\* the values a caller passes for grid: None, a Grid object, a SOSEGrid
\* object (an instance of Grid by inheritance), or a path
ChooseArgs ==
    {[kind |-> "None"], [kind |-> "Grid"], [kind |-> "SOSEGrid"]}
        \cup {[kind |-> "path", path |-> path] : path \in Paths}

\* ChooseGridPath building from file_path whenever it builds
ChooseGridPath_Mut(g, file_path) ==
    IF g.kind \in {"None", "path"} THEN <<file_path>> ELSE <<>>

\* grid.py:310-320: the path choose_grid hands to Grid, <<>> when it builds
\* nothing
ChooseGridPath(g, file_path) ==
    IF g.kind = "None" THEN <<file_path>>
    ELSE IF g.kind = "path" THEN <<g.path>>
    ELSE <<>>

\* grid.py:310-320: choose_grid(grid, file_path); built counts the calls of
\* Grid it makes
choose_grid ==
    /\ status = "running"
    /\ \E g \in ChooseArgs, file_path \in Paths :
        /\ g.kind = "Grid" => grid # <<>>
        /\ g.kind = "SOSEGrid" => sose # <<>>
        /\ LET src == ChooseGridPath(g, file_path)
               r == IF src = <<>>
                    THEN [end |-> "ok", obj |-> IF g.kind = "Grid" THEN grid ELSE sose]
                    ELSE GridCtor(FileAt(src[1]), TRUE, <<>>)
           IN  /\ call' = [op |-> "choose_grid", grid |-> g, file_path |-> file_path,
                            built |-> Len(src)]
               /\ ret' = r.obj
               /\ status' = IF r.end = "ok" THEN status ELSE r.end
               /\ printed' = IF r.end = "exit" THEN printed \cup {LonErrorMsg}
                             ELSE printed
    /\ again' = <<>>
    /\ UNCHANGED <<gfile, sfile, grid, sose>>

\* the values of split a caller passes to grid_check_split: the two the code
\* names and another one
CheckSplitArgs == {Split0, 90, Split180}

\* SplitJump comparing the first longitude with the second
SplitJump_Mut(lon_1d) == lon_1d[0] > lon_1d[1]

\* grid.py:328 and grid.py:333: the test for a jump inside the domain
SplitJump(lon_1d) == lon_1d[0] > Last(lon_1d)

SplitMsg180 ==
    "Error (grid_check_split): Looks like your domain crosses 180E. Run this again with split=0."
SplitMsg0 ==
    "Error (grid_check_split): Looks like your domain crosses 0E. Run this again with split=180."
SplitMsgBad == "Error (grid_check_split): split must be 180 or 0"

\* grid.py:324-339: how grid_check_split(grid_path, split) ends on file f
GridCheckSplit(f, split) ==
    IF split \notin {Split180, Split0}
    THEN [end |-> "exit", obj |-> <<>>, msg |-> <<SplitMsgBad>>, built |-> 0]
    ELSE LET max_lon == IF split = Split180 THEN Deg(MaxLon180) ELSE Deg(MaxLon360)
             r == GridCtor(f, TRUE, <<max_lon>>)
         IN  IF r.end # "ok"
             THEN [end |-> r.end, obj |-> <<>>, msg |-> <<>>, built |-> 1]
             ELSE IF SplitJump(r.obj[1].lon_1d)
             THEN [end |-> "exit", obj |-> <<>>, built |-> 1,
                   msg |-> IF split = Split180 THEN <<SplitMsg180>> ELSE <<SplitMsg0>>]
             ELSE [end |-> "ok", obj |-> r.obj, msg |-> <<>>, built |-> 1]

grid_check_split ==
    /\ status = "running"
    /\ \E split \in CheckSplitArgs :
        LET r == GridCheckSplit(gfile, split)
        IN  /\ call' = [op |-> "grid_check_split", split |-> split, built |-> r.built]
            /\ ret' = r.obj
            /\ status' = IF r.end = "ok" THEN status ELSE r.end
            /\ printed' = printed \cup {r.msg[n] : n \in DOMAIN r.msg}
    /\ again' = <<>>
    /\ UNCHANGED <<gfile, sfile, grid, sose>>

----------------------------------------------------------------------------
(* interpolation.interp_grid *)

\* interpolation.py:28 reads "not time dependent", which is not an
\* expression: compiling the module raises SyntaxError, so importing
\* interpolation fails and no statement of interp_grid is ever run
InterpolationCompiles == FALSE

\* an element of a masked array: a value, or masked
Cell(v) == [m |-> FALSE, v |-> v]
MaskedCell == [m |-> TRUE, v |-> 0]

\* np.ma.masked_where(mask, plane) for a 2D plane of cells
MaskPlane(plane, mask) ==
    [j \in DOMAIN plane |-> [i \in DOMAIN plane[j] |->
        IF plane[j][i].m \/ mask[j][i] THEN MaskedCell ELSE plane[j][i]]]

\* utils.mask_land, utils.mask_land_zice and utils.mask_3d on data of rank 2
\* (lat x lon) or rank 3 (time or depth, lat x lon): land, land and ice
\* shelves, and dry cells masked on sub-grid gtype; the getter's error when
\* the Grid has no such sub-grid
MaskData(data, rank, o, gtype, depth_dependent, mask_shelf) ==
    LET land == GetLandMask(o, gtype)
        ice == GetIceMask(o, gtype)
        hfac == GetHfac(o, gtype)
        Or(a, b) == [j \in DOMAIN a |-> [i \in DOMAIN a[j] |-> a[j][i] \/ b[j][i]]]
        Dry(k) == [j \in DOMAIN hfac.val[k] |-> [i \in DOMAIN hfac.val[k][j] |->
                        hfac.val[k][j][i] = 0]]
        mask2 == IF mask_shelf THEN Or(land.val, ice.val) ELSE land.val
    IN  IF land.err # "" THEN land
        ELSE IF rank = 2 THEN Ok(MaskPlane(data, mask2))
        ELSE Ok([k \in DOMAIN data |->
                    MaskPlane(data[k], IF depth_dependent THEN Dry(k) ELSE mask2)])

\* 0.5*(a + b) of two cells; the model's values are even
Mid(a, b) == IF a.m \/ b.m THEN MaskedCell ELSE Cell((a.v + b.v) \div 2)

\* interpolation.py:50-52 on one plane
InterpX(plane) ==
    [j \in DOMAIN plane |-> [i \in DOMAIN plane[j] |->
        IF i = Size(plane[j]) - 1 THEN plane[j][i] ELSE Mid(plane[j][i], plane[j][i + 1])]]

\* interpolation.py:55-57 on one plane
InterpY(plane) ==
    [j \in DOMAIN plane |-> [i \in DOMAIN plane[j] |->
        IF j = Size(plane) - 1 THEN plane[j][i] ELSE Mid(plane[j][i], plane[j + 1][i])]]

InterpShelfMsg == "Error (interp_grid): can't set mask_shelf=True for a depth-dependent field."
InterpPairMsg == "Error (interp_grid): interpolation is not yet supported"

\* interpolation.py:27-31
DepthDependent(rank, time_dependent) ==
    (time_dependent /\ rank = 4) \/ (~time_dependent /\ rank = 3)

\* interpolation.py:27-71: the statements of interp_grid, were they run
InterpBody(data, rank, o, gtype_in, gtype_out, time_dependent, mask_shelf) ==
    LET depth_dependent == DepthDependent(rank, time_dependent)
        masked == MaskData(data, rank, o, gtype_in, depth_dependent, mask_shelf)
        Each(F(_)) == IF rank = 2 THEN F(masked.val)
                      ELSE [k \in DOMAIN masked.val |-> F(masked.val[k])]
    IN  IF mask_shelf /\ depth_dependent THEN Err(InterpShelfMsg)
        ELSE IF masked.err # "" THEN masked
        ELSE IF gtype_in = "u" /\ gtype_out = "t"
        THEN MaskData(Each(InterpX), rank, o, gtype_out, depth_dependent, mask_shelf)
        ELSE IF gtype_in = "v" /\ gtype_out = "t"
        THEN MaskData(Each(InterpY), rank, o, gtype_out, depth_dependent, mask_shelf)
        ELSE Err(InterpPairMsg)

\* interpolation.py:25-71: how a call of interp_grid ends
InterpGrid(data, rank, o, gtype_in, gtype_out, time_dependent, mask_shelf) ==
    IF ~InterpolationCompiles THEN [err |-> "crash", val |-> <<>>]
    ELSE InterpBody(data, rank, o, gtype_in, gtype_out, time_dependent, mask_shelf)

\* fields on the grid of o: planes of even values rising by 2a per column, 2b
\* per row and 2c per layer, of rank 2 or of rank 3 with one plane per layer
FieldSlopes == (0..1) \X (0..1) \X (0..1)
FieldOn(o, rank, q) ==
    LET P(k) == [j \in 0..(o.ny - 1) |-> [i \in 0..(o.nx - 1) |->
                    Cell(2 * (q[1] * i + q[2] * j + q[3] * k))]]
    IN  IF rank = 2 THEN P(0) ELSE [k \in 0..(o.nz - 1) |-> P(k)]

InterpGtypes == {"t", "u", "v", "psi"}

\* interp_grid(data, grid, gtype_in, gtype_out, time_dependent, mask_shelf) on
\* the constructed Grid
interp_grid ==
    /\ status = "running"
    /\ grid # <<>>
    /\ \E rank \in {2, 3}, q \in FieldSlopes, gtype_in \in InterpGtypes,
          gtype_out \in InterpGtypes, time_dependent \in BOOLEAN, mask_shelf \in BOOLEAN :
        LET data == FieldOn(grid[1], rank, q)
            r == InterpGrid(data, rank, grid[1], gtype_in, gtype_out, time_dependent,
                            mask_shelf)
        IN  /\ call' = [op |-> "interp_grid", data |-> data, rank |-> rank,
                         gtype_in |-> gtype_in, gtype_out |-> gtype_out,
                         time_dependent |-> time_dependent, mask_shelf |-> mask_shelf]
            /\ ret' = IF r.err = "" THEN <<r.val>> ELSE <<>>
            /\ status' = CASE r.err = "" -> status [] r.err = "crash" -> "crash"
                            [] OTHER -> "exit"
            /\ printed' = IF r.err \in {"", "crash"} THEN printed ELSE printed \cup {r.err}
    /\ again' = <<>>
    /\ UNCHANGED <<gfile, sfile, grid, sose>>

----------------------------------------------------------------------------
(* The specifications *)

NoCall == [op |-> "none"]

InitGrid ==
    /\ gfile \in GridFiles
    /\ sfile = <<>>
    /\ grid = <<>>
    /\ sose = <<>>
    /\ call = NoCall
    /\ status = "running"
    /\ printed = {}
    /\ ret = <<>>
    /\ again = <<>>

NextGrid == Grid__init__

SpecGrid == InitGrid /\ [][NextGrid]_vars

\* Grid.__init__ on files of every rank
InitRank ==
    /\ gfile \in RankFiles
    /\ sfile = <<>>
    /\ grid = <<>>
    /\ sose = <<>>
    /\ call = NoCall
    /\ status = "running"
    /\ printed = {}
    /\ ret = <<>>
    /\ again = <<>>

SpecRank == InitRank /\ [][NextGrid]_vars

\* the grid files handed to grid_check_split
InitSplit ==
    /\ gfile \in SplitFiles
    /\ sfile = <<>>
    /\ grid = <<>>
    /\ sose = <<>>
    /\ call = NoCall
    /\ status = "running"
    /\ printed = {}
    /\ ret = <<>>
    /\ again = <<>>

Init ==
    /\ gfile \in TargetFiles
    /\ sfile \in SoseFiles
    /\ grid = <<>>
    /\ sose = <<>>
    /\ call = NoCall
    /\ status = "running"
    /\ printed = {}
    /\ ret = <<>>
    /\ again = <<>>

Next == Grid__init__ \/ SOSEGrid__init__ \/ read_field

Spec == Init /\ [][Next]_vars

\* the two constructions alone
NextSose == Grid__init__ \/ SOSEGrid__init__

SpecSose == Init /\ [][NextSose]_vars

\* the constructions and every method: a model grid over the Weddell Sea, one
\* with land, open ocean and ice shelf columns beside and inside the
\* Filchner-Ronne region, and global SOSE directories of six rows
MethodTargets ==
    { GridFile(1, Arr(<<Deg(-50), Deg(-45), Deg(-40)>>), Arr(<<Deg(-77) - 25>>),
               "uniform", 1, 1, Metres(25)),
      GridFile(1, Arr(<<Deg(-50), Deg(-45), Deg(-40)>>), Arr(<<Deg(-80), Deg(-78)>>),
               "stretched", 0, 1, Metres(1500)) }
MethodSoses ==
    {SoseFile(SoseGlobe[1], SoseGlobe[2], SoseGlobe[3], 6, z[1], z[2], -1, -1) :
        z \in { <<3, 10>>, <<6, 10>> }}

InitMethods ==
    /\ gfile \in MethodTargets
    /\ sfile \in MethodSoses
    /\ grid = <<>>
    /\ sose = <<>>
    /\ call = NoCall
    /\ status = "running"
    /\ printed = {}
    /\ ret = <<>>
    /\ again = <<>>

NextMethods ==
    \/ Grid__init__
    \/ SOSEGrid__init__
    \/ read_field
    \/ get_lon_lat
    \/ get_hfac
    \/ get_land_mask
    \/ get_ice_mask
    \/ get_fris_mask
    \/ call_build_land_mask
    \/ call_build_ice_mask
    \/ call_build_fris_mask
    \/ call_build_ewed_mask
    \/ call_build_sws_shelf_mask

SpecMethods == InitMethods /\ [][NextMethods]_vars

\* the constructions and choose_grid
NextChoose == Grid__init__ \/ SOSEGrid__init__ \/ choose_grid

SpecChoose == InitMethods /\ [][NextChoose]_vars

\* the construction of a Grid and interp_grid on it
NextInterp == Grid__init__ \/ interp_grid

SpecInterp == InitMethods /\ [][NextInterp]_vars

\* grid_check_split, beside the plain construction, on every model grid file
NextSplit == Grid__init__ \/ grid_check_split

SpecSplit == InitSplit /\ [][NextSplit]_vars

----------------------------------------------------------------------------
(* Properties of Grid construction *)

\* the horizontal points of an object
Points(g) == (0..(g.ny - 1)) \X (0..(g.nx - 1))
\* the layers of column pt of hfac array h that are not dry
WetLayers(h, pt) == {k \in DOMAIN h : h[k][pt[1]][pt[2]] # 0}
At(a, pt) == a[pt[1]][pt[2]]
Built == grid # <<>>

\* C1: for every constructed Grid and every horizontal point, bathy equals
\* draft minus wct exactly.
C1_BathyIsDraftMinusWct ==
    Built => \A pt \in Points(grid[1]) :
        At(grid[1].bathy, pt) = At(grid[1].draft, pt) - At(grid[1].wct, pt)

\* a Grid with an ice shelf point over a water column: draft, wct and bathy
\* are three different numbers there
C1_Witness ==
    Built /\ \E pt \in Points(grid[1]) :
        /\ At(grid[1].draft, pt) < 0
        /\ At(grid[1].wct, pt) > 0
        /\ At(grid[1].bathy, pt) = At(grid[1].draft, pt) - At(grid[1].wct, pt)

\* the draft the first wet layer k of a column gives: z_edges[k] - dz[k]*(1-hfac)
FirstWetDraft(g, pt) ==
    LET k == FirstOf(WetLayers(g.hfac, pt))
    IN  g.z_edges[k] - (g.dz[k] * (HfacOne - g.hfac[k][pt[1]][pt[2]])) \div HfacOne

\* the example of the specification: hfac[0] = 0.5 everywhere,
\* z_edges = [0,-10,-20,-30], dz = [10,10,10], wct = 25 everywhere
DraftExample(g) ==
    /\ \A pt \in Points(g) : 2 * At(g.hfac[0], pt) = HfacOne /\ At(g.wct, pt) = Metres(25)
    /\ g.z_edges = Arr(<<0, Metres(-10), Metres(-20), Metres(-30)>>)
    /\ g.dz = Arr(<<Metres(10), Metres(10), Metres(10)>>)

\* C2: at every horizontal point of a constructed Grid the draft is the one
\* given by the first (smallest k) layer with hfac # 0, whatever the wet
\* layers below it, and 0 when every layer is dry; in the example of the
\* specification draft = -5 and bathy = -30 everywhere.
C2_DraftFromFirstWetLayer ==
    Built =>
        /\ \A pt \in Points(grid[1]) :
            At(grid[1].draft, pt) =
                IF WetLayers(grid[1].hfac, pt) = {} THEN 0 ELSE FirstWetDraft(grid[1], pt)
        /\ DraftExample(grid[1]) =>
            \A pt \in Points(grid[1]) :
                /\ At(grid[1].draft, pt) = Metres(-5)
                /\ At(grid[1].bathy, pt) = Metres(-30)

\* a Grid with a dry column, and with a column whose top layer is dry, whose
\* first wet layer is a partial cell and which has a wet layer below that one
C2_Witness ==
    Built /\ \E pt \in Points(grid[1]), dry \in Points(grid[1]) :
        LET wet == WetLayers(grid[1].hfac, pt)
        IN  /\ WetLayers(grid[1].hfac, dry) = {}
            /\ Cardinality(wet) >= 2
            /\ FirstOf(wet) >= 1
            /\ grid[1].hfac[FirstOf(wet)][pt[1]][pt[2]] < HfacOne
            /\ At(grid[1].draft, pt) = FirstWetDraft(grid[1], pt)
            /\ At(grid[1].draft, pt) < grid[1].z_edges[FirstOf(wet)]

\* C3: every Grid constructed with x_is_lon=True, max_lon auto-detected or
\* passed by the caller, has a strictly increasing lon_1d (a raw axis that is
\* not strictly increasing after normalisation makes construction fail).
C3_LonStrictlyIncreasing ==
    (Built /\ call.op = "Grid" /\ call.x_is_lon) => StrictlyIncreasing(grid[1].lon_1d)

\* the hfac arrays and masks of the three sub-grids of a Grid
SubGrids(g) ==
    { [hfac |-> g.hfac, land |-> g.land_mask, ice |-> g.ice_mask, fris |-> g.fris_mask],
      [hfac |-> g.hfac_w, land |-> g.land_mask_u, ice |-> g.ice_mask_u,
       fris |-> g.fris_mask_u],
      [hfac |-> g.hfac_s, land |-> g.land_mask_v, ice |-> g.ice_mask_v,
       fris |-> g.fris_mask_v] }

\* C8: on each sub-grid (t, u, v) and at every horizontal point of a
\* constructed Grid, land_mask is true exactly when no layer of the column
\* has hfac # 0.
C8_LandMaskPartition ==
    Built => \A sg \in SubGrids(grid[1]), pt \in Points(grid[1]) :
        At(sg.land, pt) <=> (WetLayers(sg.hfac, pt) = {})

\* a Grid with a land point and with an ocean point whose top layer is dry
C8_Witness ==
    Built /\ \E a \in Points(grid[1]), b \in Points(grid[1]) :
        /\ At(grid[1].land_mask, a)
        /\ WetLayers(grid[1].hfac, a) = {}
        /\ ~At(grid[1].land_mask, b)
        /\ At(grid[1].hfac[0], b) = 0

\* C9: on each sub-grid and at every horizontal point of a constructed Grid,
\* ice_mask is true if and only if the column has a wet cell and the top
\* layer's hfac is strictly less than 1.
C9_IceMask ==
    Built => \A sg \in SubGrids(grid[1]), pt \in Points(grid[1]) :
        At(sg.ice, pt) <=>
            (WetLayers(sg.hfac, pt) # {} /\ At(sg.hfac[0], pt) < HfacOne)

\* a Grid with an ice shelf point, a point whose top cell is fully wet (no
\* ice) and a dry column (no ice although its top hfac is below 1)
C9_Witness ==
    Built /\ \E a \in Points(grid[1]), b \in Points(grid[1]), c \in Points(grid[1]) :
        /\ At(grid[1].ice_mask, a)
        /\ At(grid[1].hfac[0], b) = HfacOne /\ ~At(grid[1].ice_mask, b)
        /\ WetLayers(grid[1].hfac, c) = {} /\ ~At(grid[1].ice_mask, c)

\* C10: at every horizontal point of a constructed Grid, ice_mask implies not
\* land_mask and fris_mask implies ice_mask on each of t, u, v; ewed_mask
\* implies ice_mask; sws_shelf_mask implies neither land_mask nor ice_mask.
C10_MaskHierarchy ==
    Built => \A pt \in Points(grid[1]) :
        /\ \A sg \in SubGrids(grid[1]) :
            /\ At(sg.ice, pt) => ~At(sg.land, pt)
            /\ At(sg.fris, pt) => At(sg.ice, pt)
        /\ At(grid[1].ewed_mask, pt) => At(grid[1].ice_mask, pt)
        /\ At(grid[1].sws_shelf_mask, pt) =>
            (~At(grid[1].land_mask, pt) /\ ~At(grid[1].ice_mask, pt))

\* a Grid with a FRIS point, a continental shelf point and a land point
C10_Witness ==
    Built /\ \E a \in Points(grid[1]), b \in Points(grid[1]), c \in Points(grid[1]) :
        /\ At(grid[1].fris_mask, a)
        /\ At(grid[1].sws_shelf_mask, b)
        /\ At(grid[1].land_mask, c)

\* a Grid with an Eastern Weddell ice shelf point and FRIS points on the u
\* and v grids
MaskRegionsReached ==
    Built /\ \E a \in Points(grid[1]), b \in Points(grid[1]), c \in Points(grid[1]) :
        /\ At(grid[1].ewed_mask, a)
        /\ At(grid[1].fris_mask_u, b)
        /\ At(grid[1].fris_mask_v, c)

----------------------------------------------------------------------------
(* Properties of SOSEGrid construction and of read_field *)

Trimmed == sose # <<>> /\ sose[1].trim_extend

\* C4: a SOSEGrid constructed against a target Grid covers the six bounds of
\* the target; a grid that does not cover them is never returned.
C4_BoundsCovered ==
    Trimmed =>
        /\ sose[1].lon_corners_1d[0] <= amin2(grid[1].lon_corners_2d)
        /\ Last(sose[1].lon_corners_1d) >= amax2(grid[1].lon_2d)
        /\ sose[1].lat_corners_1d[0] <= amin2(grid[1].lat_corners_2d)
        /\ Last(sose[1].lat_corners_1d) >= amax2(grid[1].lat_2d)
        /\ sose[1].z[0] >= grid[1].z[0]
        /\ Last(sose[1].z) <= Last(grid[1].z)

\* a SOSEGrid trimmed in the west and extended to the south and at the surface
C4_Witness ==
    /\ Trimmed
    /\ sose[1].i0_before > 0
    /\ sose[1].j0_after > 0
    /\ sose[1].k0_after > 0
    /\ sose[1].lon_corners_1d[0] <= amin2(grid[1].lon_corners_2d)

\* the shapes and the elements of the array read_field returned last
Times(a, dimensions) == IF dimensions \in {"xyt", "xyzt"} THEN DOMAIN a ELSE {0}
Levels(a, dimensions, t) ==
    CASE dimensions = "xyz" -> DOMAIN a
      [] dimensions = "xyzt" -> DOMAIN a[t]
      [] OTHER -> {0}
Plane(a, dimensions, t, k) ==
    CASE dimensions = "xy" -> a
      [] dimensions = "xyz" -> a[k]
      [] dimensions = "xyt" -> a[t]
      [] dimensions = "xyzt" -> a[t][k]
HasDepth(dimensions) == dimensions \in {"xyz", "xyzt"}

\* element i of a row of the source after the rotation of the longitude axis
Rotated(row, i_split, i) == row[(i + i_split) % Size(row)]

\* C5: with trimming enabled read_field returns an array of shape
\* (time) x (nz) x ny x nx; inside the window [k0_after:k1_after,
\* j0_after:j1_after, i0_after:i1_after] every element is the element of the
\* longitude-rotated source at the matching index of the "before" window, and
\* every element outside the window is fill_value.
C5_ReadFieldWindow ==
    (Trimmed /\ ret # <<>> /\ call.op = "read_field") =>
        LET o == sose[1]
            dims == call.dimensions
            src == FieldFile(dims, sfile)
            data == ret[1]
        IN  /\ Times(data, dims) = Times(src, dims)
            /\ \A t \in Times(data, dims) :
                /\ HasDepth(dims) => Levels(data, dims, t) = 0..(o.nz - 1)
                /\ \A k \in Levels(data, dims, t) :
                    LET plane == Plane(data, dims, t, k)
                        inK == ~HasDepth(dims) \/ (k >= o.k0_after /\ k < o.k1_after)
                        kb == IF HasDepth(dims) THEN k - o.k0_after + o.k0_before ELSE 0
                    IN  /\ DOMAIN plane = 0..(o.ny - 1)
                        /\ \A j \in DOMAIN plane :
                            /\ DOMAIN plane[j] = 0..(o.nx - 1)
                            /\ \A i \in DOMAIN plane[j] :
                                plane[j][i] =
                                    IF /\ inK
                                       /\ j >= o.j0_after /\ j < o.j1_after
                                       /\ i >= o.i0_after /\ i < o.i1_after
                                    THEN Rotated(
                                            Plane(src, dims, t, kb)
                                                [j - o.j0_after + o.j0_before],
                                            o.i_split, i - o.i0_after + o.i0_before)
                                    ELSE call.fill_value

\* a time- and depth-dependent field read through a SOSEGrid that is rotated,
\* trimmed in the west, extended to the south and extended at depth
C5_Witness ==
    /\ Trimmed /\ ret # <<>> /\ call.op = "read_field"
    /\ call.dimensions = "xyzt"
    /\ sose[1].i_split > 0
    /\ sose[1].i0_before > 0
    /\ sose[1].j0_after > 0
    /\ sose[1].nz > sose[1].k1_after
    /\ ret[1][0][0][0][0] = call.fill_value
    /\ ret[1][0][sose[1].k0_after][sose[1].j0_after][0] # call.fill_value

\* C6: SOSEGrid construction ends with an error whenever split is neither 0
\* nor 180, whatever model_grid is (None included).
C6_BadSplitIsFatal ==
    (call.op = "SOSEGrid" /\ call.split \notin {Split0, Split180}) =>
        (status # "running" /\ sose = <<>>)

\* C7: every error that construction detects and prints aborts it: once an
\* error message is printed the program has stopped and, in particular, no
\* SOSEGrid was produced by a construction that printed a split mismatch.
C7_PrintedErrorAborts ==
    printed # {} => (status # "running" /\ sose = <<>>)

\* the native axes of the SOSE directory as the last SOSEGrid call read them
\* (normalised and split), and the bounds of the target Grid it was given
CallNative == SoseNative(sfile, SoseMaxLon(call.model_grid # <<>>, call.split), call.split)
CallBounds == ModelBounds(call.model_grid[1])
AgainstTarget == call.op = "SOSEGrid" /\ call.model_grid # <<>>
Aborted == status # "running" /\ sose = <<>>

NeedsWest == CallBounds.xmin < CallNative.lon_1d[0]
NeedsEast == CallBounds.xmax > Last(CallNative.lon_corners_1d)
NeedsNorth == CallBounds.ymax > Last(CallNative.lat_corners_1d)

\* C11: a SOSEGrid built against a target Grid that would have to be extended
\* westward (target western bound west of the first source centre longitude),
\* eastward (target eastern bound east of the last source corner longitude)
\* or northward (target northern bound north of the last source corner
\* latitude) ends in an error and no object is returned.
C11_NoExtensionWestEastNorth ==
    (AgainstTarget /\ CallNative.err = "" /\ (NeedsWest \/ NeedsEast \/ NeedsNorth))
        => Aborted

\* a construction that cleared the western and eastern bounds by trimming and
\* stopped because the target reaches north of the source
C11_Witness ==
    /\ AgainstTarget /\ CallNative.err = ""
    /\ ~NeedsWest /\ ~NeedsEast /\ NeedsNorth
    /\ status = "exit" /\ sose = <<>>
    /\ "Error (SOSEGrid): not allowed to extend northward" \in printed

\* constructions stopped by the westward and by the eastward extension
C11_WestReached ==
    /\ AgainstTarget /\ CallNative.err = "" /\ NeedsWest /\ Aborted
    /\ "Error (SOSEGrid): not allowed to extend westward" \in printed
C11_EastReached ==
    /\ AgainstTarget /\ CallNative.err = "" /\ ~NeedsWest /\ NeedsEast /\ Aborted
    /\ "Error (SOSEGrid): not allowed to extend eastward" \in printed

\* the latitude axes of the SOSE directory as read at grid.py:401-402
SourceLat == [j \in DOMAIN sfile.YC |-> sfile.YC[j][0]]
SourceLatCorners == [j \in DOMAIN sfile.YG |-> sfile.YG[j][0]]
NeedsSouth == ModelBounds(grid[1]).ymin < SourceLat[0]

\* axis new is axis src (from its first value on) with n values prepended that
\* continue the spacing of src southward
ExtendsSouthward(new, src, n, kept) ==
    /\ Size(new) = n + kept
    /\ new[n] = src[0]
    /\ \A j \in 0..(n - 1) : new[j + 1] - new[j] = src[1] - src[0]
    /\ \A j \in 0..(kept - 1) : new[n + j] = src[j]
    /\ StrictlyIncreasing(new)

\* C12: when the southern bound of the target lies south of the first native
\* latitude of the source, j0_before = 0, j0_after > 0, and lat_1d and
\* lat_corners_1d each start with j0_after synthetic values, evenly spaced at
\* the native spacing down from the first native value, the whole axis
\* strictly increasing.
C12_SouthExtension ==
    (Trimmed /\ NeedsSouth) =>
        LET o == sose[1]
        IN  /\ o.j0_before = 0
            /\ o.j0_after > 0
            /\ ExtendsSouthward(o.lat_1d, SourceLat, o.j0_after, o.j1_before)
            /\ ExtendsSouthward(o.lat_corners_1d, SourceLatCorners, o.j0_after,
                                o.j1_before)

\* a SOSEGrid extended southward by more than one row, the target's southern
\* bound falling between two of the synthetic corner latitudes
C12_Witness ==
    /\ Trimmed /\ NeedsSouth
    /\ sose[1].j0_after >= 2
    /\ sose[1].lat_corners_1d[0] < ModelBounds(grid[1]).ymin
    /\ sose[1].lat_corners_1d[1] >= ModelBounds(grid[1]).ymin
    /\ sose[1].lat_1d[0] = SourceLat[0] - sose[1].j0_after * sose_res

\* the depth axis of the SOSE directory as read at grid.py:404, and the value
\* one step past the last layer of an axis by linear extrapolation
SourceZ == sfile.RC
Extrapolated(a) == 2 * Last(a) - a[Size(a) - 2]

\* the depth axis z of SOSEGrid o against the source axis: no source layer
\* dropped at the surface; one layer at depth 0 prepended iff the source starts
\* deeper than the target; the source layers 0..k1_before-1 kept in order; one
\* layer of depth below appended iff the source ends shallower than the target
DepthAligned(o, target_z, below) ==
    LET above == IF SourceZ[0] < target_z[0] THEN 1 ELSE 0
        extra == IF Last(SourceZ) > Last(target_z) THEN 1 ELSE 0
    IN  /\ o.k0_before = 0
        /\ o.k0_after = above
        /\ above = 1 => o.z[0] = 0
        /\ o.k1_before <= Size(SourceZ)
        /\ \A k \in 0..(o.k1_before - 1) : o.z[above + k] = SourceZ[k]
        /\ Size(o.z) = above + o.k1_before + extra
        /\ o.nz = Size(o.z)
        /\ extra = 1 => (o.k1_before = Size(SourceZ) /\ Last(o.z) = below)

\* C13 as stated: the appended deep layer is the linear extrapolation one step
\* past the last layer of the source depth axis.
C13_DeepLayerFromSource ==
    Trimmed => DepthAligned(sose[1], grid[1].z, Extrapolated(SourceZ))

\* C13 amended: one surface layer at depth 0 is prepended iff the source's
\* shallowest centre is deeper than the target's, one deep layer is appended
\* iff the source's deepest centre is shallower than the target's, source
\* layers are dropped only at the deep end, and the depth of the appended
\* layer is the linear extrapolation one step past the last layer of the
\* target grid's depth axis.
C13_DepthAlignment ==
    Trimmed => DepthAligned(sose[1], grid[1].z, Extrapolated(grid[1].z))

\* a SOSEGrid with a surface layer prepended and a deep layer appended, the
\* two extrapolations giving different depths
C13_Witness ==
    /\ Trimmed
    /\ sose[1].k0_after = 1 /\ sose[1].z[0] = 0
    /\ sose[1].nz = sose[1].k1_after + 1
    /\ Last(sose[1].z) = Extrapolated(grid[1].z)
    /\ Extrapolated(grid[1].z) # Extrapolated(SourceZ)

\* a SOSEGrid whose deep source layers were dropped
C13_TrimReached == Trimmed /\ sose[1].k1_before < Size(SourceZ)

\* a SOSEGrid was just constructed with one of the two named values of split;
\* the range its longitudes were normalised to (grid.py:363, 367, 374)
JustBuilt == call.op = "SOSEGrid" /\ sose # <<>> /\ call.split \in {Split0, Split180}
SplitRangeMax == IF call.split = Split180 THEN Deg(MaxLon180) ELSE Deg(MaxLon360)
InLonRange(x, M) == x > M - Deg(360) /\ x <= M

\* C14 as stated: every value of lon_1d and of lon_corners_1d lies in
\* (-180, 180] for split=180 and in (0, 360] for split=0.
C14_LonInSplitRange ==
    JustBuilt =>
        /\ \A i \in DOMAIN sose[1].lon_1d : InLonRange(sose[1].lon_1d[i], SplitRangeMax)
        /\ \A i \in DOMAIN sose[1].lon_corners_1d :
                InLonRange(sose[1].lon_corners_1d[i], SplitRangeMax)

\* C14 amended: every value of lon_1d, and every value of lon_corners_1d but
\* the first, lies in (-180, 180] for split=180 and in (0, 360] for split=0;
\* the first corner longitude lies in that range or exactly 360 degrees below
\* a value of that range.
C14_LonRangeButFirstCorner ==
    JustBuilt =>
        /\ \A i \in DOMAIN sose[1].lon_1d : InLonRange(sose[1].lon_1d[i], SplitRangeMax)
        /\ \A i \in DOMAIN sose[1].lon_corners_1d :
                \/ InLonRange(sose[1].lon_corners_1d[i], SplitRangeMax)
                \/ i = 0 /\ InLonRange(sose[1].lon_corners_1d[0] + Deg(360), SplitRangeMax)

\* a SOSEGrid of several columns built with split=0 whose first corner
\* longitude was moved below the range (0, 360]
C14_Witness ==
    /\ JustBuilt /\ call.split = Split0
    /\ Size(sose[1].lon_corners_1d) >= 3
    /\ sose[1].lon_corners_1d[0] <= 0
    /\ InLonRange(sose[1].lon_corners_1d[1], SplitRangeMax)

\* a SOSEGrid built with split=180 whose axes were rotated
C14_Split180Reached == JustBuilt /\ call.split = Split180 /\ sose[1].i_split > 0

----------------------------------------------------------------------------
(* Properties of the longitude range of a Grid *)

\* a Grid was just constructed; its raw 1D centre longitudes, as in the file
GridBuilt == Built /\ call.op = "Grid"
RawLon == Lon1dOf(gfile)
AutoCall == call.op = "Grid" /\ call.x_is_lon /\ call.max_lon = <<>>

\* the raw axis has a value below 180 and a value above 180
Straddles180(raw) ==
    (\E i \in DOMAIN raw : raw[i] < Deg(180)) /\ (\E i \in DOMAIN raw : raw[i] > Deg(180))
\* the max_lon of the construction: the caller's, or the one the rule gives
RuleMaxLon ==
    IF call.max_lon # <<>> THEN call.max_lon[1]
    ELSE IF Straddles180(RawLon) THEN Deg(360) ELSE Deg(180)

AllInRange1(a, M) == \A i \in DOMAIN a : InLonRange(a[i], M)
AllInRange2(a, M) == \A j \in DOMAIN a : AllInRange1(a[j], M)

\* C15: in a Grid built with max_lon = M, passed by the caller or
\* auto-detected, every value of lon_1d, lon_corners_1d, lon_2d and
\* lon_corners_2d lies in (M-360, M].
C15_FourArraysOneRange ==
    GridBuilt =>
        /\ AllInRange1(grid[1].lon_1d, RuleMaxLon)
        /\ AllInRange1(grid[1].lon_corners_1d, RuleMaxLon)
        /\ AllInRange2(grid[1].lon_2d, RuleMaxLon)
        /\ AllInRange2(grid[1].lon_corners_2d, RuleMaxLon)

\* a Grid built with the caller's max_lon=360 from a raw axis with a negative
\* longitude, which the automatic rule would have kept in (-180, 180]
C15_Witness ==
    /\ GridBuilt /\ call.max_lon = <<Deg(MaxLon360)>>
    /\ \E i \in DOMAIN RawLon : RawLon[i] < 0 /\ grid[1].lon_1d[i] = RawLon[i] + Deg(360)
    /\ ~Straddles180(RawLon)
    /\ \E j \in DOMAIN grid[1].lon_corners_2d, i \in DOMAIN grid[1].lon_1d :
            grid[1].lon_corners_2d[j][i] > Deg(180)

\* C16: with max_lon unspecified and x_is_lon=True, max_lon is 360 if and
\* only if the raw 1D centre longitudes have minimum < 180 and maximum > 180,
\* and 180 in every other case: the arrays of the Grid are the raw ones moved
\* into the range of that max_lon.
C16_AutoDetectRule ==
    (Built /\ AutoCall) =>
        LET M == IF Straddles180(RawLon) THEN Deg(360) ELSE Deg(180)
        IN  /\ \A i \in DOMAIN RawLon :
                    /\ InLonRange(grid[1].lon_1d[i], M)
                    /\ (grid[1].lon_1d[i] - RawLon[i]) % Deg(360) = 0
            /\ AllInRange1(grid[1].lon_corners_1d, M)
            /\ AllInRange2(grid[1].lon_2d, M)

\* a Grid built in the range (0, 360] from an axis across 180E, and the same
\* rule keeping an axis that lies wholly east of 180E in (-180, 180]
C16_Witness ==
    /\ Built /\ AutoCall
    /\ Straddles180(RawLon)
    /\ \E i \in DOMAIN RawLon : grid[1].lon_1d[i] > Deg(180)
C16_Else180Reached ==
    /\ Built /\ AutoCall
    /\ \A i \in DOMAIN RawLon : RawLon[i] > Deg(180) /\ grid[1].lon_1d[i] < 0

\* C17: for the raw 1D axis [170, 175, -175, -170] with automatic detection
\* of max_lon, construction returns a Grid whose longitude axis is strictly
\* increasing.
C17_ExampleAxisIncreasing ==
    (AutoCall /\ RawLon = ExampleLonAxis) =>
        (Built /\ StrictlyIncreasing(grid[1].lon_1d))

----------------------------------------------------------------------------
(* Properties of repeated reads *)

\* C18: a field read twice in a row through read_field of the same SOSEGrid,
\* with the same file, dimensions and fill_value, comes back as the same
\* array.
C18_ReadFieldIdempotent ==
    (call.op = "read_field" /\ again # <<>>) => ret = again

\* a time- and depth-dependent field read twice through a SOSEGrid that is
\* rotated, trimmed and extended to the south, both results holding source
\* data and fill values
C18_Witness ==
    /\ call.op = "read_field" /\ again # <<>> /\ ret = again
    /\ Trimmed
    /\ call.dimensions = "xyzt"
    /\ sose[1].i_split > 0
    /\ sose[1].j0_after > 0
    /\ again[1][0][0][0][0] = call.fill_value
    /\ again[1][0][sose[1].k0_after][sose[1].j0_after][0] # call.fill_value

\* a field read twice through a SOSEGrid built without a model grid
C18_UntrimmedReached ==
    /\ call.op = "read_field" /\ again # <<>> /\ ret = again
    /\ sose # <<>> /\ ~sose[1].trim_extend

----------------------------------------------------------------------------
(* Properties of the methods of a constructed object *)

MethodOps ==
    {"get_lon_lat", "get_hfac", "get_land_mask", "get_ice_mask", "get_fris_mask",
     "build_land_mask", "build_ice_mask", "build_fris_mask", "build_ewed_mask",
     "build_sws_shelf_mask", "read_field"}

\* C19: no method call changes the object it is made on, or the other
\* object: every step that is a call of get_lon_lat, get_hfac, get_land_mask,
\* get_ice_mask, get_fris_mask, a build_*_mask helper or read_field, whether
\* it returns or ends in an error, leaves the Grid and the SOSEGrid with the
\* attributes they had before the call.
C19_MethodsLeaveObjects ==
    [][(call'.op \in MethodOps) => (grid' = grid /\ sose' = sose)]_vars

\* a get_hfac call on the u-grid of a Grid whose hfac and hfac_w differ has
\* returned hfac_w, and the Grid still holds its own hfac
C19_Witness ==
    /\ call.op = "get_hfac" /\ call.on = "Grid" /\ call.gtype = "u"
    /\ status = "running"
    /\ ret = <<grid[1].hfac_w>>
    /\ grid[1].hfac # grid[1].hfac_w
    /\ sose # <<>>

\* a call with an unknown grid type has ended in an error, both objects built
C19_ErrorReached ==
    /\ call.op \in MethodOps /\ call.op # "read_field"
    /\ call.gtype = "x"
    /\ status = "exit"
    /\ grid # <<>> /\ sose # <<>>

IceOps == {"get_ice_mask", "get_fris_mask", "build_ice_mask", "build_fris_mask"}

\* C20: on a SOSEGrid, get_ice_mask, get_fris_mask, build_ice_mask and
\* build_fris_mask print 'Error (SOSEGrid): no ice shelves to mask' and exit
\* without returning a mask, whatever the grid type; the construction of a
\* SOSEGrid prints no such message and gives the object no ice shelf mask.
C20_SoseNoIceMasks ==
    /\ (call.op \in IceOps /\ call.on = "SOSEGrid") =>
            (status = "exit" /\ ret = <<>> /\ NoIceMsg \in printed)
    /\ (call.op = "SOSEGrid") => NoIceMsg \notin printed
    /\ (sose # <<>>) =>
            /\ {"ice_mask", "fris_mask"} \cap DOMAIN sose[1] = {}
            /\ sose[1].land_mask = build_land_mask(sose[1].hfac)

\* get_fris_mask on the u-grid of a trimmed SOSEGrid has ended in the error
C20_Witness ==
    /\ call.op = "get_fris_mask" /\ call.on = "SOSEGrid" /\ call.gtype = "u"
    /\ status = "exit"
    /\ NoIceMsg \in printed
    /\ sose[1].trim_extend

\* build_ice_mask on a SOSEGrid has ended in the error
C20_BuildReached ==
    /\ call.op = "build_ice_mask" /\ call.on = "SOSEGrid"
    /\ status = "exit"
    /\ NoIceMsg \in printed

----------------------------------------------------------------------------
(* Properties of the getters of a Grid *)

GridCall(op) == call.op = op /\ call.on = "Grid"

\* the attribute of the Grid named centre or corner, 1D or 2D
LonAttr(corner, dim) ==
    CASE ~corner /\ dim = 1 -> grid[1].lon_1d
      [] ~corner /\ dim = 2 -> grid[1].lon_2d
      [] corner /\ dim = 1 -> grid[1].lon_corners_1d
      [] corner /\ dim = 2 -> grid[1].lon_corners_2d
LatAttr(corner, dim) ==
    CASE ~corner /\ dim = 1 -> grid[1].lat_1d
      [] ~corner /\ dim = 2 -> grid[1].lat_2d
      [] corner /\ dim = 1 -> grid[1].lat_corners_1d
      [] corner /\ dim = 2 -> grid[1].lat_corners_2d

\* C21: Grid.get_lon_lat(gtype, dim) with dim 1 or 2 and gtype among t, w, u,
\* v, psi returns the pair of the longitude array (corners for u and psi,
\* centres otherwise) and the latitude array (corners for v and psi, centres
\* otherwise), 1D for dim=1 and 2D for dim=2; with any other gtype or dim it
\* ends in an error and returns nothing.
C21_GetLonLat ==
    GridCall("get_lon_lat") =>
        IF call.dim \in {1, 2} /\ call.gtype \in {"t", "w", "u", "v", "psi"}
        THEN /\ status = "running"
             /\ ret = << <<LonAttr(call.gtype \in {"u", "psi"}, call.dim),
                           LatAttr(call.gtype \in {"v", "psi"}, call.dim)>> >>
        ELSE /\ status = "exit"
             /\ ret = <<>>
             /\ \E m \in printed : m \in {"Error (get_lon_lat): dim must be 1 or 2",
                                           "Error (get_lon_lat): invalid gtype " \o call.gtype}

\* the 2D psi pair returned by a Grid whose corner and centre arrays differ
C21_Witness ==
    /\ GridCall("get_lon_lat") /\ call.gtype = "psi" /\ call.dim = 2
    /\ status = "running"
    /\ ret = << <<grid[1].lon_corners_2d, grid[1].lat_corners_2d>> >>
    /\ grid[1].lat_corners_2d # grid[1].lat_2d
    /\ grid[1].lon_corners_2d # grid[1].lon_2d
    /\ Size(grid[1].lat_2d) > 1

\* the error ends of get_lon_lat: a dim of 3, an unknown gtype
C21_DimErrorReached ==
    GridCall("get_lon_lat") /\ call.dim = 3 /\ call.gtype = "t" /\ status = "exit"
C21_GtypeErrorReached ==
    GridCall("get_lon_lat") /\ call.dim = 1 /\ call.gtype = "x" /\ status = "exit"

\* the stored array of sub-grid gtype behind each getter
StoredArray(op, gtype) ==
    CASE op = "get_hfac" ->
            (CASE gtype = "t" -> grid[1].hfac [] gtype = "u" -> grid[1].hfac_w
               [] gtype = "v" -> grid[1].hfac_s)
      [] op = "get_land_mask" ->
            (CASE gtype = "t" -> grid[1].land_mask [] gtype = "u" -> grid[1].land_mask_u
               [] gtype = "v" -> grid[1].land_mask_v)
      [] op = "get_ice_mask" ->
            (CASE gtype = "t" -> grid[1].ice_mask [] gtype = "u" -> grid[1].ice_mask_u
               [] gtype = "v" -> grid[1].ice_mask_v)
      [] op = "get_fris_mask" ->
            (CASE gtype = "t" -> grid[1].fris_mask [] gtype = "u" -> grid[1].fris_mask_u
               [] gtype = "v" -> grid[1].fris_mask_v)

Getters == {"get_hfac", "get_land_mask", "get_ice_mask", "get_fris_mask"}

\* C22: get_hfac, get_land_mask, get_ice_mask and get_fris_mask of a Grid
\* return the stored array of the tracer, u or v sub-grid for gtype t, u, v,
\* and for every other gtype (psi and w among them) end in an error and
\* return no array.
C22_Getters ==
    (call.op \in Getters /\ call.on = "Grid") =>
        IF call.gtype \in {"t", "u", "v"}
        THEN status = "running" /\ ret = <<StoredArray(call.op, call.gtype)>>
        ELSE status = "exit" /\ ret = <<>> /\ printed # {}

\* get_hfac('v') has returned hfac_s on a Grid whose three hfac arrays differ
C22_Witness ==
    /\ GridCall("get_hfac") /\ call.gtype = "v"
    /\ status = "running"
    /\ ret = <<grid[1].hfac_s>>
    /\ grid[1].hfac_s # grid[1].hfac /\ grid[1].hfac_s # grid[1].hfac_w

\* get_hfac('w') and get_fris_mask('psi') have ended in their errors
C22_HfacWReached ==
    /\ GridCall("get_hfac") /\ call.gtype = "w" /\ status = "exit"
    /\ "Error (get_hfac): no hfac exists for the w grid" \in printed
C22_FrisPsiReached ==
    /\ GridCall("get_fris_mask") /\ call.gtype = "psi" /\ status = "exit"
    /\ "Error (get_fris_mask): no mask exists for the psi grid" \in printed

----------------------------------------------------------------------------
(* Properties of the FRIS mask *)

\* the ice mask, FRIS mask, longitudes and latitudes of the three sub-grids
FrisGrids(g) ==
    { [ice |-> g.ice_mask, fris |-> g.fris_mask, lon |-> g.lon_2d, lat |-> g.lat_2d],
      [ice |-> g.ice_mask_u, fris |-> g.fris_mask_u, lon |-> g.lon_corners_2d,
       lat |-> g.lat_2d],
      [ice |-> g.ice_mask_v, fris |-> g.fris_mask_v, lon |-> g.lon_2d,
       lat |-> g.lat_corners_2d] }

\* region A: lon in [W-bound, -45], lat in [S-bound, -74.7]
InRegionA(lon, lat) ==
    /\ fris_bounds[1] <= lon /\ lon <= Deg(FrisSplitLon)
    /\ fris_bounds[3] <= lat /\ lat <= FrisLatCapA
\* region B: lon in (-45, E-bound], lat in [S-bound, -77.85]
InRegionB(lon, lat) ==
    /\ Deg(FrisSplitLon) < lon /\ lon <= fris_bounds[2]
    /\ fris_bounds[3] <= lat /\ lat <= FrisLatCapB

\* C23: at every point of each sub-grid of a constructed Grid, fris_mask is
\* true exactly when ice_mask is true and the point lies in region A or in
\* region B; a point with longitude exactly -45 is selected exactly when it
\* is an ice shelf point within region A's latitudes.
C23_FrisMembership ==
    Built => \A sg \in FrisGrids(grid[1]), pt \in Points(grid[1]) :
        LET lon == At(sg.lon, pt)
            lat == At(sg.lat, pt)
        IN  /\ At(sg.fris, pt) <=>
                    (At(sg.ice, pt) /\ (InRegionA(lon, lat) \/ InRegionB(lon, lat)))
            /\ (lon = Deg(FrisSplitLon)) =>
                    (At(sg.fris, pt) <=>
                        (At(sg.ice, pt) /\ fris_bounds[3] <= lat /\ lat <= FrisLatCapA))

\* a Grid with an ice shelf point at 45W between the two latitude caps, which
\* is in the FRIS mask through region A alone
C23_Witness ==
    Built /\ \E sg \in FrisGrids(grid[1]), a \in Points(grid[1]) :
        /\ At(sg.lon, a) = Deg(FrisSplitLon)
        /\ At(sg.lat, a) > FrisLatCapB /\ At(sg.lat, a) <= FrisLatCapA
        /\ At(sg.ice, a)
        /\ At(sg.fris, a)

\* a FRIS point east of 45W, and an ice shelf point at 45W north of both caps
C23_RegionBReached ==
    Built /\ \E sg \in FrisGrids(grid[1]), a \in Points(grid[1]) :
        At(sg.lon, a) > Deg(FrisSplitLon) /\ At(sg.fris, a)
C23_NorthOfCapsReached ==
    Built /\ \E sg \in FrisGrids(grid[1]), a \in Points(grid[1]) :
        /\ At(sg.lon, a) = Deg(FrisSplitLon) /\ At(sg.lat, a) > FrisLatCapA
        /\ At(sg.ice, a) /\ ~At(sg.fris, a)

----------------------------------------------------------------------------
(* Properties of the rank of the coordinate arrays *)

\* fix_lon_range with the max_lon of the construction
CallFix(lon) == fix_lon_range(lon, ResolveMaxLon(gfile, call.x_is_lon, call.max_lon))

\* C27: a Grid construction from coordinate arrays of a rank other than 1 or
\* 2 ends fatally and yields no Grid; from rank-1 arrays the 2D meshes repeat
\* the axes (longitude along rows, latitude along columns); from rank-2
\* arrays the 1D axes are row 0 of the longitudes and column 0 of the
\* latitudes.
C27_RankOfCoordinates ==
    (call.op = "Grid") =>
        /\ (gfile.rank \notin {1, 2}) => (grid = <<>> /\ status = "crash")
        /\ (gfile.rank = 1 /\ Built) =>
                /\ grid[1].lat_1d = gfile.YC /\ grid[1].lat_corners_1d = gfile.YG
                /\ grid[1].lon_1d = CallFix(gfile.XC)
                /\ grid[1].lon_corners_1d = CallFix(gfile.XG)
                /\ \A j \in 0..(grid[1].ny - 1), i \in 0..(grid[1].nx - 1) :
                        /\ grid[1].lon_2d[j][i] = grid[1].lon_1d[i]
                        /\ grid[1].lon_corners_2d[j][i] = grid[1].lon_corners_1d[i]
                        /\ grid[1].lat_2d[j][i] = grid[1].lat_1d[j]
                        /\ grid[1].lat_corners_2d[j][i] = grid[1].lat_corners_1d[j]
        /\ (gfile.rank = 2 /\ Built) =>
                /\ grid[1].lon_1d = CallFix(gfile.XC[0])
                /\ grid[1].lon_corners_1d = CallFix(gfile.XG[0])
                /\ \A j \in 0..(grid[1].ny - 1) :
                        /\ grid[1].lat_1d[j] = gfile.YC[j][0]
                        /\ grid[1].lat_corners_1d[j] = gfile.YG[j][0]
                /\ Size(grid[1].lat_1d) = Size(gfile.YC)

\* a construction from rank-3 arrays has crashed
C27_Witness ==
    /\ call.op = "Grid" /\ gfile.rank = 3
    /\ status = "crash" /\ grid = <<>>

\* Grids built from rank-1 and from rank-2 arrays of two rows
C27_Rank1Reached == Built /\ gfile.rank = 1 /\ grid[1].ny = 2 /\ grid[1].nx = 2
C27_Rank2Reached ==
    Built /\ gfile.rank = 2 /\ grid[1].ny = 2 /\ grid[1].lat_1d[0] # grid[1].lat_1d[1]

----------------------------------------------------------------------------
(* Properties of choose_grid and grid_check_split *)

\* the Grid a default construction from path yields
DefaultGrid(path) == <<GridObject(FileAt(path), TRUE, <<>>)>>

\* C24: choose_grid(grid, file_path) returns grid itself, constructing
\* nothing, when grid is a Grid or a SOSEGrid; builds a Grid from file_path
\* when grid is None; builds a Grid from grid, ignoring file_path, when grid
\* is any other value; it constructs a Grid at most once per call.
C24_ChooseGrid ==
    (call.op = "choose_grid") =>
        /\ call.built \in {0, 1}
        /\ (call.grid.kind = "Grid") =>
                (call.built = 0 /\ status = "running" /\ ret = grid /\ ret # <<>>)
        /\ (call.grid.kind = "SOSEGrid") =>
                (call.built = 0 /\ status = "running" /\ ret = sose /\ ret # <<>>)
        /\ (call.grid.kind = "None") =>
                /\ call.built = 1
                /\ status = "running" => ret = DefaultGrid(call.file_path)
        /\ (call.grid.kind = "path") =>
                /\ call.built = 1
                /\ status = "running" => ret = DefaultGrid(call.grid.path)

\* choose_grid given the model grid's path and the path of another file has
\* returned a Grid of the model grid, which differs from a Grid of the other
C24_Witness ==
    /\ call.op = "choose_grid" /\ call.grid.kind = "path"
    /\ call.grid.path = "grid_path" /\ call.file_path = "file_path"
    /\ status = "running"
    /\ ret = DefaultGrid("grid_path")
    /\ ret # DefaultGrid("file_path")

\* choose_grid given a SOSEGrid, and given None
C24_SoseReached ==
    call.op = "choose_grid" /\ call.grid.kind = "SOSEGrid" /\ ret = sose /\ ret # <<>>
C24_NoneReached ==
    /\ call.op = "choose_grid" /\ call.grid.kind = "None" /\ call.file_path = "file_path"
    /\ ret = DefaultGrid("file_path")

RECURSIVE StepSum(_, _)
\* the sum of the first n eastward steps of axis a, each taken modulo 360
StepSum(a, n) ==
    IF n = 0 THEN 0 ELSE StepSum(a, n - 1) + ((a[n] - a[n - 1]) % FullCircle)

\* axis a is increasing modulo 360 and spans less than 360 degrees
IncreasingMod360(a) ==
    /\ \A n \in 1..(Size(a) - 1) : (a[n] - a[n - 1]) % FullCircle > 0
    /\ StepSum(a, Size(a) - 1) < FullCircle

SplitMaxLon(split) == IF split = Split180 THEN Deg(MaxLon180) ELSE Deg(MaxLon360)

\* C25: grid_check_split(grid_path, split) builds the Grid with max_lon=180
\* for split=180 and max_lon=360 for split=0; for any other split it ends in
\* an error and builds nothing; it ends in an error when the built Grid has
\* lon_1d[0] > lon_1d[-1]; so for a raw longitude axis increasing modulo 360
\* that spans less than 360 degrees every Grid it returns has a strictly
\* increasing lon_1d.
C25_GridCheckSplit ==
    (call.op = "grid_check_split") =>
        IF call.split \notin {Split180, Split0}
        THEN /\ call.built = 0 /\ ret = <<>> /\ status = "exit"
             /\ SplitMsgBad \in printed
        ELSE LET built == GridObject(gfile, TRUE, <<SplitMaxLon(call.split)>>)
             IN  /\ call.built = 1
                 /\ ret # <<>> => (ret = <<built>> /\ status = "running")
                 /\ (built.lon_1d[0] > Last(built.lon_1d)) <=>
                        (ret = <<>> /\ status = "exit")
                 /\ (IncreasingMod360(Lon1dOf(gfile)) /\ ret # <<>>) =>
                        StrictlyIncreasing(ret[1].lon_1d)

\* grid_check_split with split=0 has returned a Grid for an axis of three
\* longitudes across 180E, in the range (0, 360]
C25_Witness ==
    /\ call.op = "grid_check_split" /\ call.split = Split0
    /\ status = "running" /\ ret # <<>>
    /\ IncreasingMod360(Lon1dOf(gfile))
    /\ Size(ret[1].lon_1d) = 3
    /\ ret[1].lon_1d[0] < Deg(MaxLon180) /\ Last(ret[1].lon_1d) > Deg(MaxLon180)
    /\ Lon1dOf(gfile) # ret[1].lon_1d

\* the error ends: a jump after the second of three longitudes, another split
C25_JumpReached ==
    /\ call.op = "grid_check_split" /\ call.split = Split180
    /\ status = "exit" /\ SplitMsg180 \in printed
    /\ IncreasingMod360(Lon1dOf(gfile))
    /\ Size(Lon1dOf(gfile)) = 3
    /\ FixLon(Lon1dOf(gfile)[0], Deg(MaxLon180)) < FixLon(Lon1dOf(gfile)[1], Deg(MaxLon180))
C25_BadSplitReached ==
    call.op = "grid_check_split" /\ call.split = 90 /\ status = "exit"

----------------------------------------------------------------------------
(* Properties of a SOSEGrid built without a model grid *)

Untargeted(splits) ==
    call.op = "SOSEGrid" /\ call.model_grid = <<>> /\ call.split \in splits

\* the object keeps the native dimensions and the hfac arrays as stored
NativeObject ==
    /\ sose # <<>> /\ status = "running"
    /\ ~sose[1].trim_extend
    /\ sose[1].nx = Size(sfile.XC[0])
    /\ sose[1].ny = Size(sfile.YC)
    /\ sose[1].nz = Size(sfile.RC)
    /\ sose[1].hfac = sfile.hFacC
    /\ sose[1].hfac_w = sfile.hFacW
    /\ sose[1].hfac_s = sfile.hFacS

\* C26: with model_grid=None the construction of a SOSEGrid succeeds for
\* split=0 and for split=180 and neither trims nor extends: nx, ny, nz are
\* the native dimensions, the hfac arrays are the source arrays as stored,
\* and read_field returns the source field unchanged.
C26_UntargetedConstruction ==
    /\ Untargeted({Split0, Split180}) => NativeObject
    /\ (call.op = "read_field" /\ ~sose[1].trim_extend) =>
            ret = <<FieldFile(call.dimensions, sfile)>>

\* the part of C26 for split=0
C26_NativeWhenSplit0 ==
    /\ Untargeted({Split0}) => NativeObject
    /\ (call.op = "read_field" /\ ~sose[1].trim_extend) =>
            ret = <<FieldFile(call.dimensions, sfile)>>

\* with model_grid=None and split=180 the construction always crashes
C26_Split180Crashes ==
    Untargeted({Split180}) => (status = "crash" /\ sose = <<>>)

C26_Split0Reached == Untargeted({Split0}) /\ NativeObject
C26_Split180Reached == Untargeted({Split180})

----------------------------------------------------------------------------
(* Properties of interp_grid *)

\* the planes of data of the given rank
PlanesOf(data, rank) == IF rank = 2 THEN <<data>> ELSE [k \in 1..Size(data) |-> data[k - 1]]

\* plane out is plane in interpolated along x (along y): every cell that is
\* not masked is the mean of the cell and its eastern (northern) neighbour,
\* the last column (row) being copied
Interpolated(in, out, along_x) ==
    /\ DOMAIN out = DOMAIN in
    /\ \A j \in DOMAIN in :
        /\ DOMAIN out[j] = DOMAIN in[j]
        /\ \A i \in DOMAIN in[j] :
            LET last == IF along_x THEN i = Size(in[j]) - 1 ELSE j = Size(in) - 1
                next == IF along_x THEN in[j][i + 1] ELSE in[j + 1][i]
            IN  ~out[j][i].m =>
                    out[j][i].v = IF last THEN in[j][i].v
                                  ELSE (in[j][i].v + next.v) \div 2

\* C28: interp_grid returns an array of the shape of its input; from u to t
\* each value is the mean of the value and its eastern neighbour, the last
\* column copied; from v to t the same along latitude, the last row copied;
\* any other pair of grid types ends in an error, and mask_shelf=True with a
\* depth-dependent field ends in an error before anything else is done.
C28_InterpGrid ==
    (call.op = "interp_grid") =>
        IF call.mask_shelf /\ DepthDependent(call.rank, call.time_dependent)
        THEN status = "exit" /\ ret = <<>> /\ InterpShelfMsg \in printed
        ELSE IF <<call.gtype_in, call.gtype_out>> \notin {<<"u", "t">>, <<"v", "t">>}
        THEN status = "exit" /\ ret = <<>> /\ printed # {}
        ELSE /\ status = "running"
             /\ ret # <<>>
             /\ LET in == PlanesOf(call.data, call.rank)
                    out == PlanesOf(ret[1], call.rank)
                IN  /\ DOMAIN out = DOMAIN in
                    /\ \A k \in DOMAIN in :
                            Interpolated(in[k], out[k], call.gtype_in = "u")

\* a call from the u-grid to the t-grid has crashed
C28_CrashReached ==
    /\ call.op = "interp_grid" /\ call.gtype_in = "u" /\ call.gtype_out = "t"
    /\ status = "crash" /\ ret = <<>>

\* every call of interp_grid crashes
C28_AlwaysCrashes == (call.op = "interp_grid") => (status = "crash" /\ ret = <<>>)

----------------------------------------------------------------------------
(* Properties of the ice shelf draft *)

\* z_edges starts at 0 and decreases strictly, dz is the thickness of each
\* layer, and every hfac lies in [0, 1]
RegularDepths(g) ==
    /\ g.z_edges[0] = 0
    /\ \A k \in 0..(g.nz - 1) :
        /\ g.z_edges[k + 1] < g.z_edges[k]
        /\ g.dz[k] = g.z_edges[k] - g.z_edges[k + 1]
    /\ \A k \in 0..(g.nz - 1), pt \in Points(g) :
        g.hfac[k][pt[1]][pt[2]] \in 0..HfacOne

\* C29: on every constructed Grid with z_edges[0] = 0, z_edges strictly
\* decreasing, dz[k] = z_edges[k] - z_edges[k+1] and 0 <= hfac <= 1, at every
\* tracer point draft <= 0, draft < 0 exactly where ice_mask is true, draft = 0
\* where it is false, and the draft of a column with a wet cell lies inside
\* its first wet cell: z_edges[k+1] < draft <= z_edges[k].
C29_DraftAndIceMask ==
    (Built /\ RegularDepths(grid[1])) =>
        \A pt \in Points(grid[1]) :
            LET draft == At(grid[1].draft, pt)
                wet == WetLayers(grid[1].hfac, pt)
            IN  /\ draft <= 0
                /\ (draft < 0) <=> At(grid[1].ice_mask, pt)
                /\ ~At(grid[1].ice_mask, pt) => draft = 0
                /\ wet # {} =>
                        /\ grid[1].z_edges[FirstOf(wet) + 1] < draft
                        /\ draft <= grid[1].z_edges[FirstOf(wet)]

\* a Grid of regular depths with an ice shelf point whose top cell is partly
\* wet, one whose first wet cell is the second layer, an open ocean point and
\* a land point
C29_Witness ==
    Built /\ RegularDepths(grid[1]) /\
    \E a \in Points(grid[1]), b \in Points(grid[1]), c \in Points(grid[1]),
       d \in Points(grid[1]) :
        /\ At(grid[1].hfac[0], a) \notin {0, HfacOne}
        /\ At(grid[1].ice_mask, a) /\ At(grid[1].draft, a) < 0
        /\ At(grid[1].draft, a) > grid[1].z_edges[1]
        /\ FirstOf(WetLayers(grid[1].hfac, b) \cup {grid[1].nz}) = 1
        /\ At(grid[1].ice_mask, b) /\ At(grid[1].draft, b) <= grid[1].z_edges[1]
        /\ At(grid[1].hfac[0], c) = HfacOne
        /\ ~At(grid[1].ice_mask, c) /\ At(grid[1].draft, c) = 0
        /\ WetLayers(grid[1].hfac, d) = {}
        /\ ~At(grid[1].ice_mask, d) /\ At(grid[1].draft, d) = 0

----------------------------------------------------------------------------
(* Properties of the index bookkeeping of a SOSEGrid *)

\* the native dimensions of the SOSE directory
SoseNx == Size(sfile.XC[0])
SoseNy == Size(sfile.YC)
SoseNz == Size(sfile.RC)

\* C30: after every successful construction of a SOSEGrid against a target
\* Grid, 0 <= i0_before < i1_before <= native nx (and so for j and k), the
\* windows before and after have the same extent along each axis, i1_after =
\* nx, j1_after = ny, k1_after <= nz <= k1_after + 1, and the axes have the
\* lengths nx, ny, nz: the source window of read_field has the shape of the
\* destination window, and each lies inside its array.
C30_IndexBookkeeping ==
    Trimmed =>
        LET o == sose[1]
        IN  /\ 0 <= o.i0_before /\ o.i0_before < o.i1_before /\ o.i1_before <= SoseNx
            /\ 0 <= o.j0_before /\ o.j0_before < o.j1_before /\ o.j1_before <= SoseNy
            /\ 0 <= o.k0_before /\ o.k0_before < o.k1_before /\ o.k1_before <= SoseNz
            /\ o.i1_after - o.i0_after = o.i1_before - o.i0_before
            /\ o.j1_after - o.j0_after = o.j1_before - o.j0_before
            /\ o.k1_after - o.k0_after = o.k1_before - o.k0_before
            /\ o.i1_after = o.nx /\ o.j1_after = o.ny
            /\ o.k1_after <= o.nz /\ o.nz <= o.k1_after + 1
            /\ Size(o.lon_1d) = o.nx /\ Size(o.lon_corners_1d) = o.nx
            /\ Size(o.lat_1d) = o.ny /\ Size(o.lat_corners_1d) = o.ny
            /\ Size(o.z) = o.nz
            /\ 0 <= o.i0_after /\ 0 <= o.j0_after /\ 0 <= o.k0_after
            /\ DOMAIN o.hfac = 0..(o.nz - 1)
            /\ DOMAIN o.hfac[0] = 0..(o.ny - 1)
            /\ DOMAIN o.hfac[0][0] = 0..(o.nx - 1)

\* a SOSEGrid trimmed in the west and in the east, extended to the south, with
\* a layer added at the surface and one at depth
C30_Witness ==
    /\ Trimmed /\ call.op = "SOSEGrid"
    /\ sose[1].i0_before > 0 /\ sose[1].i1_before < SoseNx
    /\ sose[1].j0_after > 0
    /\ sose[1].k0_after = 1
    /\ sose[1].nz = sose[1].k1_after + 1

\* SOSEGrids trimmed at depth, in the south, and in the north
C30_DepthTrimReached == Trimmed /\ sose[1].k1_before < SoseNz
C30_SouthTrimReached == Trimmed /\ sose[1].j0_before > 0
C30_NorthTrimReached == Trimmed /\ sose[1].j1_before < SoseNy

====
